---- MODULE Spec2Model ----
(***************************************************************************)
(* Verification model of the colour library's vectorised transforms        *)
(* (src/colour_vectorise.py): SpectralPowerDistribution item access,       *)
(* xyY -> XYZ, von Kries chromatic adaptation and the RGB <-> XYZ          *)
(* conversion engine.                                                      *)
(*                                                                         *)
(* Numbers are exact rationals <<n, d>> (d > 0, lowest terms), extended    *)
(* with the IEEE-754 non-finite results numpy produces when floating-point *)
(* errors are ignored: <<1, 0>> = +inf, <<-1, 0>> = -inf, <<0, 0>> = nan.  *)
(* Arrays are records [shape, flat]: the numpy shape and the C-ordered     *)
(* sequence of elements.                                                   *)
(***************************************************************************)
EXTENDS Integers, Sequences, FiniteSets, TLC

VARIABLES data, op, arg, res,
          interpolators, latest, calls,
          _MUNSELL_VALUE_ASTM_D1535_08_INTERPOLATOR_CACHE, constructed

vars == <<data, op, arg, res, interpolators, latest, calls,
          _MUNSELL_VALUE_ASTM_D1535_08_INTERPOLATOR_CACHE, constructed>>

\* The state of the colour-matching-functions machine and of the process-wide
\* Munsell interpolator; the other specifications leave them as they start.
cmfsVars == <<interpolators, latest, calls>>

munsellVars == <<_MUNSELL_VALUE_ASTM_D1535_08_INTERPOLATOR_CACHE, constructed>>

(***************************************************************************)
(* Floating-point arithmetic of the array expressions, in exact rationals. *)
(***************************************************************************)
Abs(n) == IF n < 0 THEN -n ELSE n

Sign(n) == IF n < 0 THEN -1 ELSE IF n > 0 THEN 1 ELSE 0

RECURSIVE GCD(_, _)
GCD(a, b) == IF b = 0 THEN a ELSE GCD(b, a % b)

Norm(n, d) ==
    IF d = 0 THEN <<Sign(n), 0>>
    ELSE LET g == GCD(Abs(n), Abs(d))
             s == Sign(d)
         IN  <<(s * n) \div g, (s * d) \div g>>

R(n, d) == Norm(n, d)

Zero == <<0, 1>>
One == <<1, 1>>
NaN == <<0, 0>>

IsNaN(a) == a = NaN
IsInf(a) == a[2] = 0 /\ a[1] # 0
IsFinite(a) == a[2] # 0

RNeg(a) == <<-a[1], a[2]>>

RAdd(a, b) ==
    IF IsNaN(a) \/ IsNaN(b) THEN NaN
    ELSE IF IsInf(a) /\ IsInf(b) THEN (IF a = b THEN a ELSE NaN)
    ELSE IF IsInf(a) THEN a
    ELSE IF IsInf(b) THEN b
    ELSE Norm(a[1] * b[2] + b[1] * a[2], a[2] * b[2])

RSub(a, b) == RAdd(a, RNeg(b))

RMul(a, b) ==
    IF IsNaN(a) \/ IsNaN(b) THEN NaN
    ELSE IF IsInf(a) \/ IsInf(b)
         THEN <<Sign(a[1]) * Sign(b[1]), 0>>
    ELSE Norm(a[1] * b[1], a[2] * b[2])

RDiv(a, b) ==
    IF IsNaN(a) \/ IsNaN(b) THEN NaN
    ELSE IF IsInf(b) THEN (IF IsInf(a) THEN NaN ELSE Zero)
    ELSE IF IsInf(a) THEN <<a[1] * (IF b[1] < 0 THEN -1 ELSE 1), 0>>
    ELSE IF b[1] = 0 THEN <<Sign(a[1]), 0>>
    ELSE Norm(a[1] * b[2], a[2] * b[1])

REq(a, b) == ~IsNaN(a) /\ ~IsNaN(b) /\ a = b

(***************************************************************************)
(* Array helpers of colour.utilities.                                      *)
(***************************************************************************)
RECURSIVE Product(_)
Product(s) == IF s = <<>> THEN 1 ELSE Head(s) * Product(Tail(s))

Arr(shape, flat) == [shape |-> shape, flat |-> flat]

as_shape(x) == x.shape

\* as_array(x, (-1, k)): the rows of x, each a sequence of k elements.
Rows(x, k) ==
    [r \in 1..(Len(x.flat) \div k) |->
        [c \in 1..k |-> x.flat[(r - 1) * k + c]]]

RECURSIVE Flatten(_)
Flatten(rows) == IF rows = <<>> THEN <<>> ELSE Head(rows) \o Flatten(Tail(rows))

\* np.reshape(rows, shape)
reshape(rows, shape) == Arr(shape, Flatten(rows))

\* auto_axis(shape): the shape with its last axis left to be inferred.
auto_axis(shape) == SubSeq(shape, 1, Len(shape) - 1) \o <<-1>>

\* as_stack(columns, shape): stacks per-row results depth-wise and reshapes,
\* the axis given as -1 being inferred from the number of elements.
as_stack(rows, shape) ==
    LET flat == Flatten(rows)
        known == Product(SubSeq(shape, 1, Len(shape) - 1))
        last == shape[Len(shape)]
    IN  Arr(SubSeq(shape, 1, Len(shape) - 1)
              \o <<IF last = -1 THEN Len(flat) \div known ELSE last>>, flat)

(***************************************************************************)
(* colour.xyY_to_XYZ, colour.xy_to_XYZ                                     *)
(***************************************************************************)
\* Mutant: the regular formula with no guard for y == 0.
xyY_to_XYZ_row_unguarded(xyY) ==
    <<RDiv(RMul(xyY[1], xyY[3]), xyY[2]), xyY[3],
      RDiv(RMul(RSub(RSub(One, xyY[1]), xyY[2]), xyY[3]), xyY[2])>>

\* One row of the np.where of xyY_to_XYZ: both branches are evaluated, the
\* condition y == 0 selects.
xyY_to_XYZ_row(xyY) ==
    LET x == xyY[1]
        y == xyY[2]
        Y == xyY[3]
        degenerate == <<y, y, y>>
        regular == <<RDiv(RMul(x, Y), y), Y,
                     RDiv(RMul(RSub(RSub(One, x), y), Y), y)>>
    IN  IF REq(y, Zero) THEN degenerate ELSE regular

xyY_to_XYZ_vectorise(xyY) ==
    LET shape == as_shape(xyY)
        rows == Rows(xyY, 3)
    IN  as_stack([r \in 1..Len(rows) |-> xyY_to_XYZ_row(rows[r])],
                 auto_axis(shape))

xy_to_XYZ_vectorise(xy) ==
    LET shape == as_shape(xy)
        rows == Rows(xy, 2)
        xyY == as_stack([r \in 1..Len(rows) |-> <<rows[r][1], rows[r][2], One>>],
                        auto_axis(shape))
    IN  xyY_to_XYZ_vectorise(xyY)

(***************************************************************************)
(* 3 x 3 linear algebra of numpy: np.dot / np.einsum / np.linalg.inv.      *)
(***************************************************************************)
I3 == 1..3

IntMat(m) ==
    <<<<<<m[1][1], 1>>, <<m[1][2], 1>>, <<m[1][3], 1>>>>,
      <<<<m[2][1], 1>>, <<m[2][2], 1>>, <<m[2][3], 1>>>>,
      <<<<m[3][1], 1>>, <<m[3][2], 1>>, <<m[3][3], 1>>>>>>

RatMat(m, den) ==
    <<<<R(m[1][1], den), R(m[1][2], den), R(m[1][3], den)>>,
      <<R(m[2][1], den), R(m[2][2], den), R(m[2][3], den)>>,
      <<R(m[3][1], den), R(m[3][2], den), R(m[3][3], den)>>>>

Identity == IntMat(<<<<1, 0, 0>>, <<0, 1, 0>>, <<0, 0, 1>>>>)

\* sum_i a[i] * b[i]
Dot3(a, b) == RAdd(RAdd(RMul(a[1], b[1]), RMul(a[2], b[2])), RMul(a[3], b[3]))

\* np.einsum('...i,...ji', v, M) for one row v: out[j] = sum_i v[i] * M[j][i]
MatVec(M, v) == <<Dot3(M[1], v), Dot3(M[2], v), Dot3(M[3], v)>>

Col(B, k) == <<B[1][k], B[2][k], B[3][k]>>

Transpose(B) == <<Col(B, 1), Col(B, 2), Col(B, 3)>>

\* np.einsum('...ij,...jk->...ik', A, B): row i of the product is B^T . A[i]
MatMulT(A, Bt) == <<MatVec(Bt, A[1]), MatVec(Bt, A[2]), MatVec(Bt, A[3])>>

MatMul(A, B) == MatMulT(A, Transpose(B))

Nxt(i) == (i % 3) + 1

Cof(M, i, j) ==
    RSub(RMul(M[Nxt(i)][Nxt(j)], M[Nxt(Nxt(i))][Nxt(Nxt(j))]),
         RMul(M[Nxt(i)][Nxt(Nxt(j))], M[Nxt(Nxt(i))][Nxt(j)]))

Det3(M) ==
    RAdd(RAdd(RMul(M[1][1], Cof(M, 1, 1)), RMul(M[1][2], Cof(M, 1, 2))),
         RMul(M[1][3], Cof(M, 1, 3)))

Adjugate(M, det) ==
    <<<<RDiv(Cof(M, 1, 1), det), RDiv(Cof(M, 2, 1), det), RDiv(Cof(M, 3, 1), det)>>,
      <<RDiv(Cof(M, 1, 2), det), RDiv(Cof(M, 2, 2), det), RDiv(Cof(M, 3, 2), det)>>,
      <<RDiv(Cof(M, 1, 3), det), RDiv(Cof(M, 2, 3), det), RDiv(Cof(M, 3, 3), det)>>>>

\* np.linalg.inv(M), M invertible: the adjugate over the determinant.
Inv3(M) == Adjugate(M, Det3(M))

\* row_as_diagonal(D) for one row D
row_as_diagonal(D) ==
    <<<<D[1], Zero, Zero>>, <<Zero, D[2], Zero>>, <<Zero, Zero, D[3]>>>>

\* The 3 x 3 matrix at offset o of the elements of an array of shape
\* (3, 3) or (N, 3, 3).
MatAt(f, o) ==
    <<<<f[o + 1], f[o + 2], f[o + 3]>>,
      <<f[o + 4], f[o + 5], f[o + 6]>>,
      <<f[o + 7], f[o + 8], f[o + 9]>>>>

FlatMat(M) == M[1] \o M[2] \o M[3]

\* np.squeeze(x): the axes of length 1 are dropped.
RECURSIVE squeeze_shape(_)
squeeze_shape(s) ==
    IF s = <<>> THEN <<>>
    ELSE IF Head(s) = 1 THEN squeeze_shape(Tail(s))
    ELSE <<Head(s)>> \o squeeze_shape(Tail(s))

squeeze(x) == Arr(squeeze_shape(x.shape), x.flat)

\* np.einsum('...i,...ji', rows, cat): cat of shape (3, 3) is applied to
\* every row, cat of shape (N, 3, 3) row by row.
einsum_i_ji(rows, cat) ==
    [r \in 1..Len(rows) |->
        MatVec(MatAt(cat.flat, IF Len(cat.shape) = 2 THEN 0 ELSE (r - 1) * 9),
               rows[r])]

(***************************************************************************)
(* Exceptions: a call that raises returns the exception it raised.         *)
(***************************************************************************)
Raise(e) == [exc |-> e]

IsExc(x) == "exc" \in DOMAIN x

(***************************************************************************)
(* colour.adaptation: the registry and the von Kries adaptation matrix.    *)
(***************************************************************************)
\* str.lower() over the names the model uses.
Lower(s) ==
    CASE s = "CAT02" -> "cat02"
      [] s = "Bradford" -> "bradford"
      [] s = "BRADFORD" -> "bradford"
      [] s = "Von Kries" -> "von kries"
      [] s = "XYZ Scaling" -> "xyz scaling"
      [] s = "CIE 1976" -> "cie 1976"
      [] s = "Cie 1976" -> "cie 1976"
      [] s = "CIE 1994" -> "cie 1994"
      [] s = "Cie 1994" -> "cie 1994"
      [] s = "CIE 2000" -> "cie 2000"
      [] s = "Cie 2000" -> "cie 2000"
      [] s = "CIE 1931" -> "cie 1931"
      [] s = "CMC" -> "cmc"
      [] s = "Cmc" -> "cmc"
      [] OTHER -> s

\* CHROMATIC_ADAPTATION_TRANSFORMS: case-insensitive name -> cone-response
\* matrix.  'XYZ Scaling' is the identity; the other matrices are small
\* invertible integer matrices standing for the published coefficients.
CHROMATIC_ADAPTATION_TRANSFORMS ==
    [n \in {"cat02", "bradford", "von kries", "xyz scaling"} |->
        CASE n = "cat02" ->
               IntMat(<<<<1, 1, 0>>, <<-1, 2, 0>>, <<0, 0, 1>>>>)
          [] n = "bradford" ->
               IntMat(<<<<2, 1, -1>>, <<-1, 2, 0>>, <<0, 0, 1>>>>)
          [] n = "von kries" ->
               IntMat(<<<<1, 1, 0>>, <<0, 1, 0>>, <<0, 0, 1>>>>)
          [] OTHER -> Identity]

\* CaseInsensitiveMapping.get(name): None for an unknown name.
RegistryGet(name) ==
    IF Lower(name) \in DOMAIN CHROMATIC_ADAPTATION_TRANSFORMS
    THEN [none |-> FALSE, M |-> CHROMATIC_ADAPTATION_TRANSFORMS[Lower(name)]]
    ELSE [none |-> TRUE]

\* KeyError('"{0}" chromatic adaptation transform is not defined! Supported
\* methods: "{1}".'): the name asked for and the registry's keys; before
\* lists the array computations made before the lookup.
RaiseKeyError(transform) ==
    [exc |-> "KeyError", transform |-> transform,
     supported |-> DOMAIN CHROMATIC_ADAPTATION_TRANSFORMS, before |-> <<>>]

\* The exception e propagating from a lookup made after the computations ops.
RaisedAfter(e, ops) == [e EXCEPT !.before = ops \o @]

\* Row r of an (N, k) operand broadcast against the other operand.
Bcast(rows, r) == IF Len(rows) = 1 THEN rows[1] ELSE rows[r]

Max(a, b) == IF a > b THEN a ELSE b

\* Mutant: the ratio taken source over target.
Ratio_inverted(rgb_wr, rgb_w) ==
    <<RDiv(rgb_w[1], rgb_wr[1]), RDiv(rgb_w[2], rgb_wr[2]),
      RDiv(rgb_w[3], rgb_wr[3])>>

\* One row of D = rgb_wr / rgb_w
Ratio(rgb_wr, rgb_w) ==
    <<RDiv(rgb_wr[1], rgb_w[1]), RDiv(rgb_wr[2], rgb_w[2]),
      RDiv(rgb_wr[3], rgb_w[3])>>

\* inv(M) . diag(rgb_wr / rgb_w) . M for one pair of whites
VonKries_row(M, M_inv, rgb_w, rgb_wr) ==
    MatMul(MatMul(M_inv, row_as_diagonal(Ratio(rgb_wr, rgb_w))), M)

chromatic_adaptation_matrix_VonKries_vectorise(XYZ_w, XYZ_wr, transform) ==
    LET got == RegistryGet(transform)
    IN  IF got.none THEN RaiseKeyError(transform)
        ELSE
        LET M == got.M
            w == Rows(XYZ_w, 3)
            wr == Rows(XYZ_wr, 3)
            n == Max(Len(w), Len(wr))
        IN  squeeze(Arr(<<n, 3, 3>>,
                Flatten([r \in 1..n |->
                    FlatMat(VonKries_row(M, Inv3(M), MatVec(M, Bcast(w, r)),
                                         MatVec(M, Bcast(wr, r))))])))

chromatic_adaptation_VonKries_vectorise(XYZ, XYZ_w, XYZ_wr, transform) ==
    LET shape == as_shape(XYZ)
        rows == Rows(XYZ, 3)
        cat == chromatic_adaptation_matrix_VonKries_vectorise(XYZ_w, XYZ_wr,
                                                              transform)
    IN  IF IsExc(cat) THEN cat
        ELSE reshape(einsum_i_ji(rows, cat), shape)

(***************************************************************************)
(* colour.models.rgb: XYZ_to_RGB, RGB_to_XYZ, RGB_to_RGB.                  *)
(***************************************************************************)
\* np.einsum('...i,...ji', rows, M) for one 3 x 3 matrix M
MapRows(M, rows) == [r \in 1..Len(rows) |-> MatVec(M, rows[r])]

\* A caller-supplied transfer function, applied element-wise: "None", or
\* a gain and its inverse.
ApplyTransfer(f, rows) ==
    [r \in 1..Len(rows) |->
        [c \in I3 |->
            CASE f = "double" -> RMul(R(2, 1), rows[r][c])
              [] f = "halve" -> RDiv(rows[r][c], R(2, 1))
              [] OTHER -> rows[r][c]]]

\* Mutant: the result is left in its flattened (-1, 3) shape.
XYZ_to_RGB_not_reshaped(XYZ, illuminant_XYZ, illuminant_RGB, XYZ_to_RGB_matrix, chromatic_adaptation_transform, transfer_function) ==
    LET rows == Rows(XYZ, 3)
        M == chromatic_adaptation_matrix_VonKries_vectorise(
                 xy_to_XYZ_vectorise(illuminant_XYZ),
                 xy_to_XYZ_vectorise(illuminant_RGB),
                 chromatic_adaptation_transform)
    IN  IF IsExc(M) THEN M
        ELSE
        LET RGB == MapRows(XYZ_to_RGB_matrix, einsum_i_ji(rows, M))
        IN  reshape(IF transfer_function # "None"
                    THEN ApplyTransfer(transfer_function, RGB) ELSE RGB,
                    <<Len(rows), 3>>)

XYZ_to_RGB_vectorise(XYZ, illuminant_XYZ, illuminant_RGB, XYZ_to_RGB_matrix, chromatic_adaptation_transform, transfer_function) ==
    LET shape == as_shape(XYZ)
        rows == Rows(XYZ, 3)
        M == chromatic_adaptation_matrix_VonKries_vectorise(
                 xy_to_XYZ_vectorise(illuminant_XYZ),
                 xy_to_XYZ_vectorise(illuminant_RGB),
                 chromatic_adaptation_transform)
    IN  IF IsExc(M) THEN RaisedAfter(M, <<"xy_to_XYZ", "xy_to_XYZ">>)
        ELSE
        LET XYZ_a == einsum_i_ji(rows, M)
            RGB == MapRows(XYZ_to_RGB_matrix, XYZ_a)
            RGB_t == IF transfer_function # "None"
                     THEN ApplyTransfer(transfer_function, RGB)
                     ELSE RGB
        IN  reshape(RGB_t, shape)

\* Mutant: the adaptation runs from illuminant_XYZ to illuminant_RGB.
RGB_to_XYZ_adapted_backwards(RGB, illuminant_RGB, illuminant_XYZ, RGB_to_XYZ_matrix, chromatic_adaptation_transform, inverse_transfer_function) ==
    LET rows == Rows(RGB, 3)
        RGB_l == IF inverse_transfer_function # "None"
                 THEN ApplyTransfer(inverse_transfer_function, rows)
                 ELSE rows
        M == chromatic_adaptation_matrix_VonKries_vectorise(
                 xy_to_XYZ_vectorise(illuminant_XYZ),
                 xy_to_XYZ_vectorise(illuminant_RGB),
                 chromatic_adaptation_transform)
    IN  IF IsExc(M) THEN M
        ELSE reshape(einsum_i_ji(MapRows(RGB_to_XYZ_matrix, RGB_l), M),
                     as_shape(RGB))

RGB_to_XYZ_vectorise(RGB, illuminant_RGB, illuminant_XYZ, RGB_to_XYZ_matrix, chromatic_adaptation_transform, inverse_transfer_function) ==
    LET shape == as_shape(RGB)
        rows == Rows(RGB, 3)
        RGB_l == IF inverse_transfer_function # "None"
                 THEN ApplyTransfer(inverse_transfer_function, rows)
                 ELSE rows
        XYZ == MapRows(RGB_to_XYZ_matrix, RGB_l)
        M == chromatic_adaptation_matrix_VonKries_vectorise(
                 xy_to_XYZ_vectorise(illuminant_RGB),
                 xy_to_XYZ_vectorise(illuminant_XYZ),
                 chromatic_adaptation_transform)
    IN  IF IsExc(M)
        THEN RaisedAfter(M, (IF inverse_transfer_function # "None"
                             THEN <<"inverse_transfer_function">> ELSE <<>>)
                            \o <<"einsum", "xy_to_XYZ", "xy_to_XYZ">>)
        ELSE reshape(einsum_i_ji(XYZ, M), shape)

\* Mutant: the output colourspace's XYZ_to_RGB_matrix is left out.
RGB_to_RGB_without_output_matrix(RGB, input_colourspace, output_colourspace, chromatic_adaptation_transform) ==
    LET cat == chromatic_adaptation_matrix_VonKries_vectorise(
                   xy_to_XYZ_vectorise(input_colourspace.whitepoint),
                   xy_to_XYZ_vectorise(output_colourspace.whitepoint),
                   chromatic_adaptation_transform)
    IN  IF IsExc(cat) THEN cat
        ELSE reshape(MapRows(MatMul(input_colourspace.RGB_to_XYZ_matrix,
                                    MatAt(cat.flat, 0)), Rows(RGB, 3)),
                     as_shape(RGB))

RGB_to_RGB_vectorise(RGB, input_colourspace, output_colourspace, chromatic_adaptation_transform) ==
    LET shape == as_shape(RGB)
        rows == Rows(RGB, 3)
        cat == chromatic_adaptation_matrix_VonKries_vectorise(
                   xy_to_XYZ_vectorise(input_colourspace.whitepoint),
                   xy_to_XYZ_vectorise(output_colourspace.whitepoint),
                   chromatic_adaptation_transform)
    IN  IF IsExc(cat) THEN RaisedAfter(cat, <<"xy_to_XYZ", "xy_to_XYZ">>)
        ELSE
        reshape(MapRows(MatMul(MatMul(input_colourspace.RGB_to_XYZ_matrix,
                                      MatAt(cat.flat, 0)),
                               output_colourspace.XYZ_to_RGB_matrix), rows),
                shape)

(***************************************************************************)
(* colour.SpectralPowerDistribution: item access on the wavelength ->      *)
(* value mapping `data`.  A wavelength argument is a record:               *)
(*   [kind |-> "numeric", w |-> 510]                                       *)
(*   [kind |-> "iterable", ws |-> <<510, 520>>]                            *)
(*   [kind |-> "slice", start |-> 0, stop |-> -1]                          *)
(*   [kind |-> "other"]          (any other type)                          *)
(* A slice bound None behaves as 0 (start) or as a bound past the end      *)
(* (stop), both of which the integer bounds cover.                         *)
(***************************************************************************)
None == -1

\* No colour-matching functions in use, no Munsell interpolator built.
\* No interpolator has been built.
NoInterpolators == <<>>

Untouched ==
    /\ interpolators = NoInterpolators
    /\ latest = <<>>
    /\ calls = 0
    /\ _MUNSELL_VALUE_ASTM_D1535_08_INTERPOLATOR_CACHE = None
    /\ constructed = 0

Ret(v) == [val |-> v]

is_numeric(x) == x.kind = "numeric"

is_iterable(x) == x.kind = "iterable"

Min(a, b) == IF a < b THEN a ELSE b

SetMin(S) == CHOOSE x \in S : \A y \in S : x <= y

RECURSIVE Sorted(_)
Sorted(S) == IF S = {} THEN <<>> ELSE <<SetMin(S)>> \o Sorted(S \ {SetMin(S)})

\* SpectralPowerDistribution.wavelengths: the keys in ascending order.
wavelengths(d) == Sorted(DOMAIN d)

\* SpectralPowerDistribution.values: the values in wavelength order.
values(d) == [i \in 1..Len(wavelengths(d)) |-> d[wavelengths(d)[i]]]

\* seq[start:stop] of Python / numpy, step 1.
SliceIndex(i, n) == IF i < 0 THEN Max(n + i, 0) ELSE Min(i, n)

PySlice(seq, start, stop) ==
    SubSeq(seq, SliceIndex(start, Len(seq)) + 1, SliceIndex(stop, Len(seq)))

\* as_array(x): a numeric becomes a one-element array.
as_array_1d(x) == IF is_numeric(x) THEN <<x.w>> ELSE x.ws

\* np.resize(a, (n,)): a repeated cyclically up to n elements (a non-empty).
np_resize(a, n) == [i \in 1..n |-> a[((i - 1) % Len(a)) + 1]]

\* dict.__setitem__
DictSet(d, k, v) == [x \in DOMAIN d \cup {k} |-> IF x = k THEN v ELSE d[x]]

\* Mutant: a missing wavelength yields None, as dict.get would, not KeyError.
SpectralPowerDistribution__getitem__lenient(d, wavelength) ==
    IF is_numeric(wavelength)
    THEN Ret(IF wavelength.w \in DOMAIN d THEN d[wavelength.w] ELSE None)
    ELSE IF is_iterable(wavelength)
    THEN Ret([i \in 1..Len(wavelength.ws) |->
                 IF wavelength.ws[i] \in DOMAIN d THEN d[wavelength.ws[i]]
                 ELSE None])
    ELSE IF wavelength.kind = "slice"
    THEN Ret(PySlice(values(d), wavelength.start, wavelength.stop))
    ELSE Raise("NotImplementedError")

SpectralPowerDistribution__getitem__(d, wavelength) ==
    IF is_numeric(wavelength)
    THEN IF wavelength.w \in DOMAIN d
         THEN Ret(d[wavelength.w])
         ELSE Raise("KeyError")
    ELSE IF is_iterable(wavelength)
    THEN IF \A i \in 1..Len(wavelength.ws) : wavelength.ws[i] \in DOMAIN d
         THEN Ret([i \in 1..Len(wavelength.ws) |-> d[wavelength.ws[i]]])
         ELSE Raise("KeyError")
    ELSE IF wavelength.kind = "slice"
    THEN Ret(PySlice(values(d), wavelength.start, wavelength.stop))
    ELSE Raise("NotImplementedError")

\* The loop `for i in range(len(wavelengths)): data[wavelengths[i]] = values[i]`
RECURSIVE SetLoop(_, _, _, _)
SetLoop(d, ws, vs, i) ==
    IF i > Len(ws) THEN d
    ELSE SetLoop(DictSet(d, ws[i], vs[i]), ws, vs, i + 1)

\* Mutant: a slice addresses the wavelengths start <= w < stop by value.
SpectralPowerDistribution__setitem__slice_by_value(d, wavelength, value) ==
    IF is_numeric(wavelength) \/ is_iterable(wavelength)
    THEN LET ws == as_array_1d(wavelength)
         IN  SetLoop(d, ws, np_resize(value, Len(ws)), 1)
    ELSE IF wavelength.kind = "slice"
    THEN LET ws == Sorted({w \in DOMAIN d :
                              wavelength.start <= w /\ w < wavelength.stop})
         IN  SetLoop(d, ws, np_resize(value, Len(ws)), 1)
    ELSE d

\* Mutant: a shorter value sequence is padded with zeros, not repeated.
SpectralPowerDistribution__setitem__zero_padded(d, wavelength, value) ==
    IF is_numeric(wavelength) \/ is_iterable(wavelength)
    THEN LET ws == as_array_1d(wavelength)
         IN  SetLoop(d, ws, [i \in 1..Len(ws) |->
                                IF i <= Len(value) THEN value[i] ELSE 0], 1)
    ELSE IF wavelength.kind = "slice"
    THEN LET ws == PySlice(wavelengths(d), wavelength.start, wavelength.stop)
         IN  SetLoop(d, ws, np_resize(value, Len(ws)), 1)
    ELSE d

\* The mapping after spd[wavelength] = value; value is as_array(value).
SpectralPowerDistribution__setitem__(d, wavelength, value) ==
    IF is_numeric(wavelength) \/ is_iterable(wavelength)
    THEN LET ws == as_array_1d(wavelength)
         IN  SetLoop(d, ws, np_resize(value, Len(ws)), 1)
    ELSE IF wavelength.kind = "slice"
    THEN LET ws == PySlice(wavelengths(d), wavelength.start, wavelength.stop)
         IN  SetLoop(d, ws, np_resize(value, Len(ws)), 1)
    ELSE d

\* as_numeric(x): a one-element numeric array becomes a scalar.
as_numeric(a) == IF Len(a) = 1 /\ a[1] # None THEN a[1] ELSE a

\* Mutant: a missing wavelength raises KeyError, as indexing does.
SpectralPowerDistribution_get_strict(d, wavelength, default) ==
    LET ws == as_array_1d(wavelength)
    IN  IF \A i \in 1..Len(ws) : ws[i] \in DOMAIN d
        THEN Ret(as_numeric([i \in 1..Len(ws) |-> d[ws[i]]]))
        ELSE Raise("KeyError")

SpectralPowerDistribution_get(d, wavelength, default) ==
    LET ws == as_array_1d(wavelength)
    IN  Ret(as_numeric([i \in 1..Len(ws) |->
                IF ws[i] \in DOMAIN d THEN d[ws[i]] ELSE default]))

(***************************************************************************)
(* The SpectralPowerDistribution state machine: an SPD is built from a     *)
(* mapping, then indexed, assigned to and queried in any order, one call   *)
(* after the other: op, arg and res hold the call that has just returned.  *)
(***************************************************************************)
NumWavelengths == 3
MaxValue == 2
MaxKeys == 2
MaxVals == 2

Wavelengths == {500 + 10 * i : i \in 1..NumWavelengths}

Values == 1..MaxValue

SeqsUpTo(S, n) == UNION {[1..k -> S] : k \in 0..n}

Mappings == UNION {[S -> Values] : S \in SUBSET Wavelengths}

SliceStarts == (-1)..1

SliceStops == (-1)..NumWavelengths

KeyArgs ==
    [kind : {"numeric"}, w : Wavelengths]
    \cup [kind : {"iterable"}, ws : SeqsUpTo(Wavelengths, MaxKeys)]

WavelengthArgs ==
    KeyArgs
    \cup [kind : {"slice"}, start : SliceStarts, stop : SliceStops]
    \cup [kind : {"other"}]

\* as_array(value) of a scalar or of a non-empty sequence of values
ValueArgs == SeqsUpTo(Values, MaxVals) \ {<<>>}

Defaults == {None, 0}

Init ==
    /\ data \in Mappings
    /\ Untouched
    /\ op = "idle"
    /\ arg = [kind |-> "none"]
    /\ res = Ret(None)

GetItem ==
    /\ op = "idle"
    /\ \E w \in WavelengthArgs :
        /\ op' = "getitem"
        /\ arg' = [wavelength |-> w]
        /\ res' = SpectralPowerDistribution__getitem__(data, w)
        /\ UNCHANGED <<data, cmfsVars, munsellVars>>

SetItem ==
    /\ op = "idle"
    /\ \E w \in WavelengthArgs, v \in ValueArgs :
        /\ op' = "setitem"
        /\ arg' = [wavelength |-> w, value |-> v]
        /\ data' = SpectralPowerDistribution__setitem__(data, w, v)
        /\ res' = IF w.kind = "other" THEN Raise("NotImplementedError")
                  ELSE Ret(None)
        /\ UNCHANGED <<cmfsVars, munsellVars>>

Get ==
    /\ op = "idle"
    /\ \E w \in KeyArgs, default \in Defaults :
        /\ op' = "get"
        /\ arg' = [wavelength |-> w, default |-> default]
        /\ res' = SpectralPowerDistribution_get(data, w, default)
        /\ UNCHANGED <<data, cmfsVars, munsellVars>>

\* The caller has taken the result; the SPD keeps its mapping for the next call.
Return ==
    /\ op # "idle"
    /\ op' = "idle"
    /\ arg' = [kind |-> "none"]
    /\ res' = Ret(None)
    /\ UNCHANGED <<data, cmfsVars, munsellVars>>

Next == GetItem \/ SetItem \/ Get \/ Return

Spec == Init /\ [][Next]_vars

(***************************************************************************)
(* Properties of SpectralPowerDistribution item access (Spec).             *)
(***************************************************************************)
\* The key at 0-based position p of the wavelengths in ascending order.
KeyAt(d, p) == CHOOSE w \in DOMAIN d : Cardinality({u \in DOMAIN d : u < w}) = p

\* The 0-based positions start..stop-1 a slice selects out of n samples.
SlicePositions(sl, n) ==
    {p \in 0..(n - 1) :
        /\ p >= (IF sl.start < 0 THEN Max(n + sl.start, 0) ELSE sl.start)
        /\ p < (IF sl.stop < 0 THEN n + sl.stop ELSE sl.stop)}

\* C7: indexing an SPD with an existing wavelength returns exactly the stored
\* value, indexing with an iterable of existing wavelengths returns the stored
\* values in query order, and a wavelength that is not a key raises KeyError.
C7_ExactKeyLookup ==
    op = "getitem" =>
        LET w == arg.wavelength
        IN  /\ w.kind = "numeric" =>
                IF w.w \in DOMAIN data
                THEN ~IsExc(res) /\ res.val = data[w.w]
                ELSE res = Raise("KeyError")
            /\ w.kind = "iterable" =>
                IF \A i \in 1..Len(w.ws) : w.ws[i] \in DOMAIN data
                THEN /\ ~IsExc(res)
                     /\ Len(res.val) = Len(w.ws)
                     /\ \A i \in 1..Len(w.ws) : res.val[i] = data[w.ws[i]]
                ELSE res = Raise("KeyError")

\* An iterable query in descending wavelength order, answered in that order.
C7_Witness ==
    /\ op = "getitem"
    /\ arg.wavelength.kind = "iterable"
    /\ Len(arg.wavelength.ws) = 2
    /\ arg.wavelength.ws[1] > arg.wavelength.ws[2]
    /\ ~IsExc(res)
    /\ res.val[1] # res.val[2]

\* C8: slices address by position: spd[i:j] reads the values at positions
\* i..j-1 of the ascending-wavelength order, and spd[i:j] = v assigns only to
\* the existing wavelengths at those positions; no key is added and no key
\* outside the slice changes.
C8_SliceStep ==
    /\ (op' = "getitem" /\ arg'.wavelength.kind = "slice") =>
         LET n == Cardinality(DOMAIN data)
             P == SlicePositions(arg'.wavelength, n)
         IN  /\ ~IsExc(res')
             /\ Len(res'.val) = Cardinality(P)
             /\ \A p \in P :
                  res'.val[1 + Cardinality({q \in P : q < p})]
                      = data[KeyAt(data, p)]
    /\ (op' = "setitem" /\ arg'.wavelength.kind = "slice") =>
         LET n == Cardinality(DOMAIN data)
             P == SlicePositions(arg'.wavelength, n)
             v == arg'.value
         IN  /\ DOMAIN data' = DOMAIN data
             /\ \A p \in 0..(n - 1) :
                  data'[KeyAt(data, p)] =
                      IF p \in P
                      THEN v[(Cardinality({q \in P : q < p}) % Len(v)) + 1]
                      ELSE data[KeyAt(data, p)]

C8_SlicePositional == [][C8_SliceStep]_vars

\* A slice assignment that selected some, not all, of at least two samples.
C8_Witness ==
    /\ op = "setitem"
    /\ arg.wavelength.kind = "slice"
    /\ LET n == Cardinality(DOMAIN data)
           P == SlicePositions(arg.wavelength, n)
       IN  n >= 2 /\ P # {} /\ Cardinality(P) < n
                  /\ \E p \in P : data[KeyAt(data, p)] # data[KeyAt(data, 0)]

\* No two equal elements, in ascending order.
StrictlyAscending(s) == \A i \in 1..(Len(s) - 1) : s[i] < s[i + 1]

\* The mapping d2 is d after the stores d[ws[i]] = v[i mod Len(v)], in order.
KeyedStores(d, d2, ws, v) ==
    LET addressed == {ws[i] : i \in 1..Len(ws)}
    IN  /\ \A i \in 1..Len(ws) :
             (\A j \in (i + 1)..Len(ws) : ws[j] # ws[i]) =>
                 d2[ws[i]] = v[((i - 1) % Len(v)) + 1]
        /\ DOMAIN d2 = DOMAIN d \cup addressed
        /\ \A w \in DOMAIN d \ addressed : d2[w] = d[w]
        /\ Len(wavelengths(d2)) = Cardinality(DOMAIN d2)
        /\ StrictlyAscending(wavelengths(d2))

\* C9: keyed assignment stores values[i mod len(values)] for the i-th
\* addressed wavelength (stores happen in key order, so a wavelength addressed
\* more than once holds the value of its last store), creates the addressed
\* keys that did not exist, keeps every wavelength not addressed, and keeps the
\* wavelengths unique.
C9_KeyedStep ==
    (op' = "setitem" /\ arg'.wavelength.kind \in {"numeric", "iterable"}) =>
        KeyedStores(data, data',
                    IF arg'.wavelength.kind = "numeric"
                    THEN <<arg'.wavelength.w>> ELSE arg'.wavelength.ws,
                    arg'.value)

C9_KeyedAssignment == [][C9_KeyedStep]_vars

\* Two distinct wavelengths were assigned from a one-element value sequence,
\* one of them a new key, while another wavelength was left alone.
C9_Witness ==
    /\ op = "setitem"
    /\ arg.wavelength.kind = "iterable"
    /\ Len(arg.wavelength.ws) = 2
    /\ arg.wavelength.ws[1] # arg.wavelength.ws[2]
    /\ Len(arg.value) = 1
    /\ data[arg.wavelength.ws[2]] = arg.value[1]
    /\ Cardinality(DOMAIN data) = 3

\* C10: get never raises: per queried wavelength it returns the stored value
\* if the wavelength is a key and the default otherwise, in query order, and
\* it does not change the mapping.
C10_GetStep ==
    op' = "get" =>
        LET ws == IF arg'.wavelength.kind = "numeric"
                  THEN <<arg'.wavelength.w>> ELSE arg'.wavelength.ws
            expected == [i \in 1..Len(ws) |->
                            IF ws[i] \in DOMAIN data THEN data[ws[i]]
                            ELSE arg'.default]
        IN  /\ data' = data
            /\ ~IsExc(res')
            /\ IF Len(ws) = 1 /\ expected[1] # None
               THEN res'.val = expected[1]
               ELSE res'.val = expected

C10_GetDefault == [][C10_GetStep]_vars

\* A query mixing a missing wavelength and an existing one, in that order.
C10_Witness ==
    /\ op = "get"
    /\ arg.wavelength.kind = "iterable"
    /\ Len(arg.wavelength.ws) = 2
    /\ arg.wavelength.ws[1] \notin DOMAIN data
    /\ arg.wavelength.ws[2] \in DOMAIN data
    /\ res.val[1] = arg.default
    /\ res.val[2] = data[arg.wavelength.ws[2]]

(***************************************************************************)
(* The conversion engine as pure functions: an input is drawn, then the    *)
(* function it names is applied once (SpecRGB).                            *)
(***************************************************************************)
MaxRows == 2

\* Sample tristimulus / RGB triplets.
Colours ==
    {<<R(1, 1), R(1, 1), R(1, 1)>>,
     <<R(1, 2), R(1, 1), R(3, 2)>>,
     <<R(0, 1), R(2, 1), R(-1, 1)>>}

\* Chromaticities of white points: two ordinary ones, one whose second cone
\* response is zero under 'CAT02', and the degenerate y = 0.
WhitesXY ==
    {<<R(1, 3), R(1, 3)>>, <<R(1, 4), R(1, 4)>>,
     <<R(1, 2), R(1, 4)>>, <<R(1, 3), R(0, 1)>>}

xyArr(w) == Arr(<<2>>, w)

WhitesXYZ == {xy_to_XYZ_vectorise(xyArr(w)) : w \in WhitesXY}

\* RGB colourspace descriptors: whitepoint and two mutually inverse matrices.
Colourspace(name, wp, m, den) ==
    [name |-> name, whitepoint |-> xyArr(wp),
     RGB_to_XYZ_matrix |-> RatMat(m, den),
     XYZ_to_RGB_matrix |-> Inv3(RatMat(m, den))]

COLOURSPACES ==
    {Colourspace("A", <<R(1, 3), R(1, 3)>>,
                 <<<<2, 1, 1>>, <<1, 2, 1>>, <<0, 1, 3>>>>, 4),
     Colourspace("B", <<R(1, 4), R(1, 4)>>,
                 <<<<3, 1, 0>>, <<1, 2, 1>>, <<1, 2, 5>>>>, 4)}

TransformNames ==
    {"CAT02", "Bradford", "BRADFORD", "Von Kries", "XYZ Scaling", "Sharp"}

\* Arrays of rank 1 (3,), rank 2 (N, 3) and rank 3 (H, W, 3) over a set of
\* triplets, with at most MaxRows triplets.
Shapes ==
    {<<3>>} \cup {<<n, 3>> : n \in 1..MaxRows}
    \cup {<<hw[1], hw[2], 3>> :
            hw \in {x \in (1..MaxRows) \X (1..MaxRows) : x[1] * x[2] <= MaxRows}}

ArraysOf(S) ==
    UNION {{Arr(sh, Flatten(rows)) :
              rows \in [1..(Product(sh) \div 3) -> S]} : sh \in Shapes}

Rank1(S) == {Arr(<<3>>, c) : c \in S}

ColourArrays == ArraysOf(Colours)

\* Every parameter varied on single colours ...
InputsRGB ==
    [fn : {"chromatic_adaptation_matrix_VonKries"},
     XYZ_w : WhitesXYZ, XYZ_wr : WhitesXYZ, transform : TransformNames]
    \cup
    [fn : {"chromatic_adaptation_VonKries"}, XYZ : Rank1(Colours),
     XYZ_w : WhitesXYZ, XYZ_wr : WhitesXYZ, transform : TransformNames]
    \cup
    [fn : {"XYZ_to_RGB"}, XYZ : Rank1(Colours),
     illuminant_XYZ : WhitesXY, illuminant_RGB : WhitesXY,
     matrix : {Identity} \cup {c.XYZ_to_RGB_matrix : c \in COLOURSPACES},
     transform : TransformNames, transfer : {"None", "double"}]
    \cup
    [fn : {"RGB_to_XYZ"}, RGB : Rank1(Colours),
     illuminant_RGB : WhitesXY, illuminant_XYZ : WhitesXY,
     matrix : {Identity} \cup {c.RGB_to_XYZ_matrix : c \in COLOURSPACES},
     transform : TransformNames, transfer : {"None", "halve"}]
    \cup
    [fn : {"RGB_to_RGB"}, RGB : Rank1(Colours),
     input : COLOURSPACES, output : COLOURSPACES, transform : TransformNames]

ShapeWhitesXY == {<<R(1, 3), R(1, 3)>>, <<R(1, 4), R(1, 4)>>}

ShapeTransforms == {"CAT02", "Bradford"}

\* ... and every array shape on a few parameters; chromatic_adaptation_VonKries
\* also with one source white per colour.
InputsShape ==
    [fn : {"chromatic_adaptation_VonKries"}, XYZ : ColourArrays,
     XYZ_w : {xy_to_XYZ_vectorise(xyArr(w)) : w \in ShapeWhitesXY},
     XYZ_wr : Rank1({<<R(1, 1), R(1, 1), R(1, 1)>>}),
     transform : ShapeTransforms]
    \cup
    {[fn |-> "chromatic_adaptation_VonKries", XYZ |-> aw[1],
      XYZ_w |-> aw[2], XYZ_wr |-> wr, transform |-> "Bradford"] :
        aw \in {x \in ColourArrays
                       \X ArraysOf({xy_to_XYZ_vectorise(xyArr(w)).flat :
                                       w \in ShapeWhitesXY}) :
                   x[1].shape = x[2].shape},
        wr \in Rank1({<<R(1, 1), R(1, 1), R(1, 1)>>})}
    \cup
    [fn : {"XYZ_to_RGB"}, XYZ : ColourArrays,
     illuminant_XYZ : ShapeWhitesXY, illuminant_RGB : ShapeWhitesXY,
     matrix : {c.XYZ_to_RGB_matrix : c \in COLOURSPACES},
     transform : ShapeTransforms, transfer : {"None"}]
    \cup
    [fn : {"RGB_to_XYZ"}, RGB : ColourArrays,
     illuminant_RGB : ShapeWhitesXY, illuminant_XYZ : ShapeWhitesXY,
     matrix : {c.RGB_to_XYZ_matrix : c \in COLOURSPACES},
     transform : ShapeTransforms, transfer : {"None"}]
    \cup
    [fn : {"RGB_to_RGB"}, RGB : ColourArrays,
     input : COLOURSPACES, output : COLOURSPACES, transform : ShapeTransforms]

InitRGB ==
    /\ data = <<>>
    /\ Untouched
    /\ op = "input"
    /\ arg \in InputsRGB \cup InputsShape
    /\ res = Ret(None)

Call_chromatic_adaptation_matrix_VonKries ==
    /\ op = "input" /\ arg.fn = "chromatic_adaptation_matrix_VonKries"
    /\ op' = arg.fn
    /\ res' = chromatic_adaptation_matrix_VonKries_vectorise(
                  arg.XYZ_w, arg.XYZ_wr, arg.transform)
    /\ UNCHANGED <<data, arg, cmfsVars, munsellVars>>

Call_chromatic_adaptation_VonKries ==
    /\ op = "input" /\ arg.fn = "chromatic_adaptation_VonKries"
    /\ op' = arg.fn
    /\ res' = chromatic_adaptation_VonKries_vectorise(
                  arg.XYZ, arg.XYZ_w, arg.XYZ_wr, arg.transform)
    /\ UNCHANGED <<data, arg, cmfsVars, munsellVars>>

Call_XYZ_to_RGB ==
    /\ op = "input" /\ arg.fn = "XYZ_to_RGB"
    /\ op' = arg.fn
    /\ res' = XYZ_to_RGB_vectorise(arg.XYZ, xyArr(arg.illuminant_XYZ),
                  xyArr(arg.illuminant_RGB), arg.matrix, arg.transform,
                  arg.transfer)
    /\ UNCHANGED <<data, arg, cmfsVars, munsellVars>>

Call_RGB_to_XYZ ==
    /\ op = "input" /\ arg.fn = "RGB_to_XYZ"
    /\ op' = arg.fn
    /\ res' = RGB_to_XYZ_vectorise(arg.RGB, xyArr(arg.illuminant_RGB),
                  xyArr(arg.illuminant_XYZ), arg.matrix, arg.transform,
                  arg.transfer)
    /\ UNCHANGED <<data, arg, cmfsVars, munsellVars>>

Call_RGB_to_RGB ==
    /\ op = "input" /\ arg.fn = "RGB_to_RGB"
    /\ op' = arg.fn
    /\ res' = RGB_to_RGB_vectorise(arg.RGB, arg.input, arg.output,
                                   arg.transform)
    /\ UNCHANGED <<data, arg, cmfsVars, munsellVars>>

NextRGB ==
    \/ Call_chromatic_adaptation_matrix_VonKries
    \/ Call_chromatic_adaptation_VonKries
    \/ Call_XYZ_to_RGB
    \/ Call_RGB_to_XYZ
    \/ Call_RGB_to_RGB

SpecRGB == InitRGB /\ [][NextRGB]_vars

(***************************************************************************)
(* xyY_to_XYZ and xy_to_XYZ as pure functions (SpecXYY).                   *)
(***************************************************************************)
Chromas == {R(0, 1), R(1, 4), R(1, 2)}

Luminances == {R(0, 1), R(1, 2), R(1, 1)}

xyYTriplets == {<<x, y, Y>> : x \in Chromas, y \in Chromas, Y \in Luminances}

xyShapes == {<<2>>} \cup {<<n, 2>> : n \in 1..MaxRows}

InitXYY ==
    /\ data = <<>>
    /\ Untouched
    /\ op = "input"
    /\ res = Ret(None)
    /\ \/ \E sh \in Shapes :
            \E rows \in [1..(Product(sh) \div 3) -> xyYTriplets] :
                arg = [fn |-> "xyY_to_XYZ", xyY |-> Arr(sh, Flatten(rows))]
       \/ \E sh \in xyShapes :
            \E rows \in [1..(Product(sh) \div 2) -> Chromas \X Chromas] :
                arg = [fn |-> "xy_to_XYZ", xy |-> Arr(sh, Flatten(rows))]

Call_xyY_to_XYZ ==
    /\ op = "input" /\ arg.fn = "xyY_to_XYZ"
    /\ op' = arg.fn
    /\ res' = xyY_to_XYZ_vectorise(arg.xyY)
    /\ UNCHANGED <<data, arg, cmfsVars, munsellVars>>

Call_xy_to_XYZ ==
    /\ op = "input" /\ arg.fn = "xy_to_XYZ"
    /\ op' = arg.fn
    /\ res' = xy_to_XYZ_vectorise(arg.xy)
    /\ UNCHANGED <<data, arg, cmfsVars, munsellVars>>

NextXYY == Call_xyY_to_XYZ \/ Call_xy_to_XYZ

SpecXYY == InitXYY /\ [][NextXYY]_vars

(***************************************************************************)
(* Properties of the conversion engine.                                    *)
(***************************************************************************)
\* Row r (1-based) of an array whose last axis has k elements.
RowOf(x, r, k) == SubSeq(x.flat, (r - 1) * k + 1, r * k)

NumRows(x, k) == Len(x.flat) \div k

ConeMatrix(transform) == CHROMATIC_ADAPTATION_TRANSFORMS[Lower(transform)]

NonZero3(v) == \A c \in I3 : IsFinite(v[c]) /\ v[c] # Zero

\* The cone responses of the white of chromaticity xy under a transform.
ConeOfXY(transform, xy) ==
    MatVec(ConeMatrix(transform), xy_to_XYZ_vectorise(xyArr(xy)).flat)

\* C1: with no transfer functions, for whites W1, W2 of non-zero cone
\* responses and an invertible matrix M,
\* RGB_to_XYZ(XYZ_to_RGB(XYZ, W1, W2, M, T), W2, W1, M^-1, T) = XYZ, the
\* W2 -> W1 adaptation matrix being the inverse of the W1 -> W2 one.
C1_RoundTrip ==
    (/\ op = "XYZ_to_RGB"
     /\ arg.transfer = "None"
     /\ ~IsExc(res)
     /\ NonZero3(ConeOfXY(arg.transform, arg.illuminant_XYZ))
     /\ NonZero3(ConeOfXY(arg.transform, arg.illuminant_RGB)))
    =>
    /\ RGB_to_XYZ_vectorise(res, xyArr(arg.illuminant_RGB),
                            xyArr(arg.illuminant_XYZ), Inv3(arg.matrix),
                            arg.transform, "None") = arg.XYZ
    /\ MatMul(MatAt(chromatic_adaptation_matrix_VonKries_vectorise(
                        xy_to_XYZ_vectorise(xyArr(arg.illuminant_RGB)),
                        xy_to_XYZ_vectorise(xyArr(arg.illuminant_XYZ)),
                        arg.transform).flat, 0),
              MatAt(chromatic_adaptation_matrix_VonKries_vectorise(
                        xy_to_XYZ_vectorise(xyArr(arg.illuminant_XYZ)),
                        xy_to_XYZ_vectorise(xyArr(arg.illuminant_RGB)),
                        arg.transform).flat, 0)) = Identity

\* A conversion between two different whites through a non-trivial matrix.
C1_Witness ==
    /\ op = "XYZ_to_RGB"
    /\ arg.transfer = "None"
    /\ arg.transform = "Bradford"
    /\ arg.illuminant_XYZ # arg.illuminant_RGB
    /\ arg.matrix # Identity
    /\ NonZero3(ConeOfXY(arg.transform, arg.illuminant_XYZ))
    /\ NonZero3(ConeOfXY(arg.transform, arg.illuminant_RGB))
    /\ ~IsExc(res)
    /\ res # arg.XYZ

\* The adaptation matrix from the input to the output whitepoint.
CatOf(input, output, transform) ==
    MatAt(chromatic_adaptation_matrix_VonKries_vectorise(
              xy_to_XYZ_vectorise(input.whitepoint),
              xy_to_XYZ_vectorise(output.whitepoint), transform).flat, 0)

\* C2: RGB_to_RGB recodes through XYZ: every output colour is
\* output.XYZ_to_RGB_matrix . adaptation . input.RGB_to_XYZ_matrix . RGB.
C2_ThroughXYZ ==
    (op = "RGB_to_RGB" /\ ~IsExc(res)) =>
        /\ res.shape = arg.RGB.shape
        /\ \A r \in 1..NumRows(arg.RGB, 3) :
             RowOf(res, r, 3) =
                 MatVec(arg.output.XYZ_to_RGB_matrix,
                     MatVec(CatOf(arg.input, arg.output, arg.transform),
                         MatVec(arg.input.RGB_to_XYZ_matrix,
                                RowOf(arg.RGB, r, 3))))

\* C3: with the same descriptor as input and output colourspace, RGB_to_RGB
\* returns the RGB values unchanged, for any registered transform.
C3_SameColourspaceIdentity ==
    (op = "RGB_to_RGB" /\ arg.input = arg.output
        /\ Lower(arg.transform) \in DOMAIN CHROMATIC_ADAPTATION_TRANSFORMS)
    => res = arg.RGB

C3_Witness ==
    /\ op = "RGB_to_RGB"
    /\ arg.input = arg.output
    /\ arg.input.RGB_to_XYZ_matrix # Identity
    /\ arg.transform = "Von Kries"
    /\ res = arg.RGB

\* C4: the von Kries matrix is M^-1 . diag(rho_wr / rho_w) . M with
\* rho = M . XYZ; for non-zero source cone responses it maps the source white
\* exactly onto the target white, and it is the identity for equal whites.
C4_VonKriesMatrix ==
    (op = "chromatic_adaptation_matrix_VonKries" /\ ~IsExc(res)) =>
        LET M == ConeMatrix(arg.transform)
            w == arg.XYZ_w.flat
            wr == arg.XYZ_wr.flat
            rho_w == MatVec(M, w)
            rho_wr == MatVec(M, wr)
            D == <<<<RDiv(rho_wr[1], rho_w[1]), Zero, Zero>>,
                   <<Zero, RDiv(rho_wr[2], rho_w[2]), Zero>>,
                   <<Zero, Zero, RDiv(rho_wr[3], rho_w[3])>>>>
            cat == MatAt(res.flat, 0)
        IN  /\ res.shape = <<3, 3>>
            /\ cat = MatMul(MatMul(Inv3(M), D), M)
            /\ NonZero3(rho_w) =>
                 /\ MatMul(M, cat) = MatMul(D, M)
                 /\ MatVec(cat, w) = wr
                 /\ (w = wr => cat = Identity)

\* A matrix between two different whites of non-zero cone responses.
C4_Witness ==
    /\ op = "chromatic_adaptation_matrix_VonKries"
    /\ arg.transform = "CAT02"
    /\ arg.XYZ_w # arg.XYZ_wr
    /\ NonZero3(MatVec(ConeMatrix(arg.transform), arg.XYZ_w.flat))
    /\ NonZero3(MatVec(ConeMatrix(arg.transform), arg.XYZ_wr.flat))
    /\ MatAt(res.flat, 0) # Identity
    /\ MatVec(MatAt(res.flat, 0), arg.XYZ_w.flat) = arg.XYZ_wr.flat

\* The colour array a call was given, and the call on its single colour r.
ColourArg == IF arg.fn = "RGB_to_XYZ" \/ arg.fn = "RGB_to_RGB" THEN arg.RGB
             ELSE arg.XYZ

SingleColour(r) == Arr(<<3>>, RowOf(ColourArg, r, 3))

SingleCall(r) ==
    CASE arg.fn = "XYZ_to_RGB" ->
           XYZ_to_RGB_vectorise(SingleColour(r), xyArr(arg.illuminant_XYZ),
               xyArr(arg.illuminant_RGB), arg.matrix, arg.transform,
               arg.transfer)
      [] arg.fn = "RGB_to_XYZ" ->
           RGB_to_XYZ_vectorise(SingleColour(r), xyArr(arg.illuminant_RGB),
               xyArr(arg.illuminant_XYZ), arg.matrix, arg.transform,
               arg.transfer)
      [] arg.fn = "RGB_to_RGB" ->
           RGB_to_RGB_vectorise(SingleColour(r), arg.input, arg.output,
               arg.transform)
      [] OTHER ->
           chromatic_adaptation_VonKries_vectorise(SingleColour(r),
               IF NumRows(arg.XYZ_w, 3) = 1 THEN arg.XYZ_w
               ELSE Arr(<<3>>, RowOf(arg.XYZ_w, r, 3)),
               arg.XYZ_wr, arg.transform)

\* C5: XYZ_to_RGB, RGB_to_XYZ, RGB_to_RGB and chromatic_adaptation_VonKries
\* return an array of exactly the shape of the input colour array, of rank
\* 1, 2 or 3, whose colour at each leading index is the function of the input
\* colour at the same index.
C5_ShapePreserved ==
    (/\ op \in {"XYZ_to_RGB", "RGB_to_XYZ", "RGB_to_RGB",
                "chromatic_adaptation_VonKries"}
     /\ ~IsExc(res))
    =>
    /\ res.shape = ColourArg.shape
    /\ Len(res.flat) = Product(res.shape)
    /\ \A r \in 1..NumRows(ColourArg, 3) :
         RowOf(res, r, 3) = SingleCall(r).flat

\* An image of rank 3 with two different colours was converted.
C5_Witness ==
    /\ op = "XYZ_to_RGB"
    /\ Len(arg.XYZ.shape) = 3
    /\ arg.illuminant_XYZ # arg.illuminant_RGB
    /\ NumRows(arg.XYZ, 3) = 2
    /\ RowOf(arg.XYZ, 1, 3) # RowOf(arg.XYZ, 2, 3)
    /\ res.shape = arg.XYZ.shape
    /\ RowOf(res, 1, 3) # RowOf(res, 2, 3)

\* C6: xyY_to_XYZ returns [0, 0, 0] for every colour whose y is exactly 0,
\* without raising, and (x*Y/y, Y, (1-x-y)*Y/y) otherwise, colour by colour.
C6_DegenerateY ==
    op = "xyY_to_XYZ" =>
        /\ ~IsExc(res)
        /\ res.shape = arg.xyY.shape
        /\ \A r \in 1..NumRows(arg.xyY, 3) :
             LET x == RowOf(arg.xyY, r, 3)[1]
                 y == RowOf(arg.xyY, r, 3)[2]
                 Y == RowOf(arg.xyY, r, 3)[3]
             IN  RowOf(res, r, 3) =
                     IF y = Zero THEN <<Zero, Zero, Zero>>
                     ELSE <<R(x[1] * Y[1] * y[2], x[2] * Y[2] * y[1]),
                            Y,
                            R((x[2] * y[2] - x[1] * y[2] - y[1] * x[2])
                                  * Y[1] * y[2],
                              x[2] * y[2] * Y[2] * y[1])>>

\* A batch holding a degenerate colour (y = 0, x and Y not 0) next to a
\* regular one.
C6_Witness ==
    /\ op = "xyY_to_XYZ"
    /\ arg.xyY.shape = <<2, 3>>
    /\ RowOf(arg.xyY, 1, 3)[2] = Zero
    /\ RowOf(arg.xyY, 1, 3)[1] # Zero
    /\ RowOf(arg.xyY, 1, 3)[3] # Zero
    /\ RowOf(arg.xyY, 2, 3)[2] # Zero
    /\ RowOf(res, 1, 3) = <<Zero, Zero, Zero>>
    /\ RowOf(res, 2, 3) # <<Zero, Zero, Zero>>

(***************************************************************************)
(* TriSpectralPowerDistribution: three co-indexed SPDs x, y, z              *)
(* [x |-> mapping, y |-> mapping, z |-> mapping].                          *)
(***************************************************************************)
SetMax(S) == CHOOSE x \in S : \A y \in S : x >= y

\* A numeric / iterable wavelength argument.
Numeric(w) == [kind |-> "numeric", w |-> w]

Iterable(ws) == [kind |-> "iterable", ws |-> ws]

\* TriSpectralPowerDistribution.wavelengths
tri_wavelengths(t) == wavelengths(t.x)

\* TriSpectralPowerDistribution.values: one (x, y, z) row per wavelength.
tri_values(t) ==
    [i \in 1..Len(tri_wavelengths(t)) |->
        <<t.x[tri_wavelengths(t)[i]], t.y[tri_wavelengths(t)[i]],
          t.z[tri_wavelengths(t)[i]]>>]

\* TriSpectralPowerDistribution.shape: start and end of the wavelengths.
shape_start(t) == SetMin(DOMAIN t.x)

shape_end(t) == SetMax(DOMAIN t.x)

\* TriSpectralPowerDistribution.is_uniform(): one step between the samples.
is_uniform(t) ==
    LET ws == tri_wavelengths(t)
    IN  \A i \in 2..(Len(ws) - 1) : ws[i + 1] - ws[i] = ws[2] - ws[1]

\* np.array((x, y, z)): shape (3,) of three scalars, (3, n) of three arrays
\* of n elements.
np_array_xyz(x, y, z, scalars) ==
    IF scalars THEN Arr(<<3>>, <<x, y, z>>)
    ELSE Arr(<<3, Len(x)>>, x \o y \o z)

\* np.swapaxes(a, 0, 1): an array of less than two axes has no axis 1.
np_swapaxes_0_1(a) ==
    IF Len(a.shape) < 2 THEN Raise("ValueError")
    ELSE Ret(Arr(<<a.shape[2], a.shape[1]>>,
                 [k \in 1..Len(a.flat) |->
                     a.flat[((k - 1) % a.shape[1]) * a.shape[2]
                            + ((k - 1) \div a.shape[1]) + 1]]))

TriSpectralPowerDistribution__getitem__(t, wavelength) ==
    LET x == SpectralPowerDistribution__getitem__(t.x, wavelength)
        y == SpectralPowerDistribution__getitem__(t.y, wavelength)
        z == SpectralPowerDistribution__getitem__(t.z, wavelength)
    IN  IF IsExc(x) THEN x
        ELSE IF IsExc(y) THEN y
        ELSE IF IsExc(z) THEN z
        ELSE np_swapaxes_0_1(
                 np_array_xyz(x.val, y.val, z.val, is_numeric(wavelength)))

\* The columns x, y, z of np.resize(as_array(value), (n, 3)).
TriColumn(value, n, c) == [i \in 1..n |-> np_resize(value, 3 * n)[3 * (i - 1) + c]]

TriSpectralPowerDistribution__setitem__(t, wavelength, value) ==
    IF wavelength.kind = "other" THEN t
    ELSE LET ws == IF is_numeric(wavelength) \/ is_iterable(wavelength)
                   THEN as_array_1d(wavelength)
                   ELSE PySlice(tri_wavelengths(t), wavelength.start,
                                wavelength.stop)
             n == Len(ws)
         IN  [x |-> SpectralPowerDistribution__setitem__(
                        t.x, Iterable(ws), TriColumn(value, n, 1)),
              y |-> SpectralPowerDistribution__setitem__(
                        t.y, Iterable(ws), TriColumn(value, n, 2)),
              z |-> SpectralPowerDistribution__setitem__(
                        t.z, Iterable(ws), TriColumn(value, n, 3))]

\* TriSpectralPowerDistribution.get: one (x, y, z) row per wavelength, squeezed.
TriSpectralPowerDistribution_get(t, wavelength, default) ==
    LET ws == as_array_1d(wavelength)
        row(w) ==
            <<SpectralPowerDistribution_get(t.x, Numeric(w), default).val,
              SpectralPowerDistribution_get(t.y, Numeric(w), default).val,
              SpectralPowerDistribution_get(t.z, Numeric(w), default).val>>
    IN  squeeze(Arr(<<Len(ws), 3>>, Flatten([i \in 1..Len(ws) |-> row(ws[i])])))

\* SpectralPowerDistribution.__contains__: every wavelength is a key.
SpectralPowerDistribution__contains__(d, wavelength) ==
    \A i \in 1..Len(as_array_1d(wavelength)) :
        as_array_1d(wavelength)[i] \in DOMAIN d

\* TriSpectralPowerDistribution.__contains__
TriSpectralPowerDistribution__contains__(t, wavelength) ==
    SpectralPowerDistribution__contains__(t.x, wavelength)

(***************************************************************************)
(* wavelength_to_XYZ: colour-matching functions at arbitrary wavelengths.  *)
(* An interpolator is the table it was built from; evaluating it gives the *)
(* sample at a sample and the value on the segment between the two         *)
(* neighbouring samples elsewhere.                                         *)
(***************************************************************************)
\* interpolator(wavelengths, values[:, i])
Interpolator(kind, ws, vs, i) ==
    [kind |-> kind, x |-> ws, y |-> [k \in 1..Len(vs) |-> vs[k][i]]]

\* interpolator(w): the sample's value at a sample, a value between the two
\* neighbouring samples' values between samples, the nearest sample's value
\* outside the samples.
Evaluate(f, w) ==
    LET below == {k \in 1..Len(f.x) : f.x[k] <= w}
        above == {k \in 1..Len(f.x) : f.x[k] >= w}
        lo == IF below = {} THEN SetMin(above) ELSE SetMax(below)
        hi == IF above = {} THEN SetMax(below) ELSE SetMin(above)
    IN  IF lo = hi THEN R(f.y[lo], 1)
        ELSE R(f.y[lo] * (f.x[hi] - f.x[lo])
                   + (f.y[hi] - f.y[lo]) * (w - f.x[lo]),
               f.x[hi] - f.x[lo])

\* Mutant: the interpolators of an earlier call are used again.
wavelength_to_XYZ_interpolators_kept(cached, cmfs) ==
    IF cached # NoInterpolators THEN cached
    ELSE [i \in 1..3 |->
             Interpolator(IF is_uniform(cmfs) THEN "Sprague" ELSE "Spline",
                          tri_wavelengths(cmfs), tri_values(cmfs), i)]

\* The interpolators a call builds: one per column of cmfs.values, whatever
\* interpolators (cached) an earlier call built.
wavelength_to_XYZ_interpolators(cached, cmfs) ==
    [i \in 1..3 |->
        Interpolator(IF is_uniform(cmfs) THEN "Sprague" ELSE "Spline",
                     tri_wavelengths(cmfs), tri_values(cmfs), i)]

\* Mutant: only the queried wavelengths below the domain are rejected.
wavelength_to_XYZ_in_domain_no_upper_check(ws, cmfs) ==
    \A i \in 1..Len(ws) : ws[i] >= shape_start(cmfs)

\* not (np.min(wavelength) < shape.start or np.max(wavelength) > shape.end)
wavelength_to_XYZ_in_domain(ws, cmfs) ==
    /\ \A i \in 1..Len(ws) : ws[i] >= shape_start(cmfs)
    /\ \A i \in 1..Len(ws) : ws[i] <= shape_end(cmfs)

\* The result of a call: the value returned (val) or the exception raised
\* (exc), the interpolators the call built (none if it built none) and the
\* wavelengths it evaluated them at.
wavelength_to_XYZ_vectorise(wavelength, cmfs, cached) ==
    LET ws == as_array_1d(wavelength)
        fs == wavelength_to_XYZ_interpolators(cached, cmfs)
    IN  IF ~wavelength_to_XYZ_in_domain(ws, cmfs)
        THEN [exc |-> "ValueError",
              message |-> <<ws, shape_start(cmfs), shape_end(cmfs)>>,
              interpolators |-> NoInterpolators, evaluated |-> <<>>]
        ELSE IF ~TriSpectralPowerDistribution__contains__(cmfs, wavelength)
        THEN [val |-> squeeze(Arr(<<Len(ws), 3>>,
                          Flatten([k \in 1..Len(ws) |->
                              <<Evaluate(fs[1], ws[k]), Evaluate(fs[2], ws[k]),
                                Evaluate(fs[3], ws[k])>>]))),
              interpolators |-> fs, evaluated |-> ws]
        ELSE LET v == TriSpectralPowerDistribution_get(cmfs, wavelength, None)
             IN  [val |-> Arr(v.shape, [k \in 1..Len(v.flat) |-> R(v.flat[k], 1)]),
                  interpolators |-> NoInterpolators, evaluated |-> <<>>]

(***************************************************************************)
(* TriSpectralPowerDistribution indexing and wavelength_to_XYZ as          *)
(* functions of the colour-matching functions and of the query (SpecTri).  *)
(***************************************************************************)
\* Colour-matching-function tables: x over every non-empty set of sample
\* wavelengths, y and z different from x at every sample.
TriTable(m) ==
    [x |-> m,
     y |-> [w \in DOMAIN m |-> m[w] + 1],
     z |-> [w \in DOMAIN m |-> 2 * m[w] + (w - 500) \div 10]]

TriTables == {TriTable(m) : m \in Mappings \ {<<>>}}

\* Queried wavelengths: the possible samples, the midpoints between them and
\* one wavelength below and one above all of them.
QueryWavelengths == Wavelengths \cup {w - 5 : w \in Wavelengths}
                        \cup {w + 5 : w \in Wavelengths}

Queries ==
    [kind : {"numeric"}, w : QueryWavelengths]
    \cup [kind : {"iterable"},
          ws : [1..1 -> QueryWavelengths] \cup [1..2 -> QueryWavelengths]]

InitTri ==
    /\ data \in TriTables
    /\ Untouched
    /\ op = "input"
    /\ res = Ret(None)
    /\ \/ \E w \in WavelengthArgs :
            arg = [fn |-> "TriSpectralPowerDistribution.__getitem__",
                   wavelength |-> w]
       \/ \E w \in Queries :
            arg = [fn |-> "wavelength_to_XYZ", wavelength |-> w]

Call_TriSpectralPowerDistribution__getitem__ ==
    /\ op = "input" /\ arg.fn = "TriSpectralPowerDistribution.__getitem__"
    /\ op' = arg.fn
    /\ res' = TriSpectralPowerDistribution__getitem__(data, arg.wavelength)
    /\ UNCHANGED <<data, arg, cmfsVars, munsellVars>>

Call_wavelength_to_XYZ ==
    /\ op = "input" /\ arg.fn = "wavelength_to_XYZ"
    /\ op' = arg.fn
    /\ res' = wavelength_to_XYZ_vectorise(arg.wavelength, data, interpolators)
    /\ UNCHANGED <<data, arg, cmfsVars, munsellVars>>

NextTri == Call_TriSpectralPowerDistribution__getitem__ \/ Call_wavelength_to_XYZ

SpecTri == InitTri /\ [][NextTri]_vars

\* The (x, y, z) rows of the colour-matching functions t at the wavelengths ws.
TriRows(t, ws) == Flatten([i \in 1..Len(ws) |-> <<t.x[ws[i]], t.y[ws[i]], t.z[ws[i]]>>])

\* C12: indexing a TriSpectralPowerDistribution returns the (x[w], y[w], z[w])
\* of the selected wavelengths: a 3-vector for a single wavelength present in
\* all three SPDs, without raising; an n x 3 array in query order for an
\* iterable of n present wavelengths; the k x 3 array of the positionally
\* selected samples for a slice.
C12_TriIndexing ==
    op = "TriSpectralPowerDistribution.__getitem__" =>
        LET w == arg.wavelength
        IN  /\ (w.kind = "numeric" /\ w.w \in DOMAIN data.x) =>
                 /\ ~IsExc(res)
                 /\ res.val = Arr(<<3>>, TriRows(data, <<w.w>>))
            /\ (w.kind = "iterable"
                  /\ \A i \in 1..Len(w.ws) : w.ws[i] \in DOMAIN data.x) =>
                 /\ ~IsExc(res)
                 /\ res.val = Arr(<<Len(w.ws), 3>>, TriRows(data, w.ws))
            /\ w.kind = "slice" =>
                 LET ws == PySlice(tri_wavelengths(data), w.start, w.stop)
                 IN  /\ ~IsExc(res)
                     /\ res.val = Arr(<<Len(ws), 3>>, TriRows(data, ws))


\* Some queried wavelength lies below the first or above the last sample of
\* the colour-matching functions t.
OutsideShape(ws, t) == \E i \in 1..Len(ws) : ws[i] < shape_start(t) \/ ws[i] > shape_end(t)

\* C13: wavelength_to_XYZ raises its domain error exactly when some queried
\* wavelength is below shape.start or above shape.end of the colour-matching
\* functions, and then before any lookup or interpolation (no interpolator is
\* built or evaluated); queries whose wavelengths all lie within
\* [shape.start, shape.end], the two endpoints included, are answered.
C13_DomainError ==
    op = "wavelength_to_XYZ" =>
        LET ws == as_array_1d(arg.wavelength)
        IN  /\ IsExc(res) <=> OutsideShape(ws, data)
            /\ IsExc(res) =>
                 /\ res.exc = "ValueError"
                 /\ res.message = <<ws, shape_start(data), shape_end(data)>>
                 /\ res.interpolators = NoInterpolators
                 /\ res.evaluated = <<>>
            /\ \A i \in 1..Len(ws) :
                 ws[i] \in {shape_start(data), shape_end(data)} /\ ~OutsideShape(ws, data)
                     => ~IsExc(res)

\* A query mixing the last sample with a wavelength above it is rejected, on
\* colour-matching functions with more than one sample.
C13_Witness ==
    /\ op = "wavelength_to_XYZ"
    /\ arg.wavelength.kind = "iterable"
    /\ Len(arg.wavelength.ws) = 2
    /\ shape_start(data) < shape_end(data)
    /\ arg.wavelength.ws[1] = shape_end(data)
    /\ arg.wavelength.ws[2] > shape_end(data)
    /\ IsExc(res)

\* C14: every queried wavelength that is an exact sample of the
\* colour-matching functions gets its tabulated (x, y, z) verbatim and no
\* interpolator is applied to it, also when the same query holds wavelengths
\* that are not samples.
C14_ExactSamples ==
    (op = "wavelength_to_XYZ" /\ ~IsExc(res)) =>
        LET ws == as_array_1d(arg.wavelength)
            rows == Rows(res.val, 3)
        IN  \A k \in 1..Len(ws) :
                ws[k] \in DOMAIN data.x =>
                    /\ rows[k] = <<R(data.x[ws[k]], 1), R(data.y[ws[k]], 1), R(data.z[ws[k]], 1)>>
                    /\ \A j \in 1..Len(res.evaluated) : res.evaluated[j] # ws[k]


(***************************************************************************)
(* Keyed assignments to colour-matching functions interleaved with reads   *)
(* and with evaluations by wavelength_to_XYZ (SpecCMFS).                   *)
(* latest is the history of the mapping: per wavelength, the (x, y, z)     *)
(* assigned last and the index of the call that assigned it (0: at         *)
(* construction).  interpolators records the interpolators built last, the *)
(* index of the call that built them and of the call that built the ones   *)
(* before (0: none).                                                       *)
(***************************************************************************)
MaxCalls == 3

\* The (x, y, z) of the sequence v, repeated cyclically, for the i-th key.
AssignedTriple(v, i) == [c \in 1..3 |-> v[((3 * (i - 1) + c - 1) % Len(v)) + 1]]

\* The history after the keyed stores ws[i..] := v, made by call number n.
RECURSIVE Assigned(_, _, _, _, _)
Assigned(h, ws, v, i, n) ==
    IF i > Len(ws) THEN h
    ELSE Assigned([w \in DOMAIN h \cup {ws[i]} |->
                      IF w = ws[i] THEN [value |-> AssignedTriple(v, i), at |-> n]
                      ELSE h[w]],
                  ws, v, i + 1, n)

\* Keys assigned to: every single wavelength, and the last and first
\* possible wavelengths in one assignment.
AssignedKeys ==
    [kind : {"numeric"}, w : Wavelengths]
    \cup {Iterable(<<SetMax(Wavelengths), SetMin(Wavelengths)>>)}

\* Values assigned: one (x, y, z) for all keys, a scalar, one (x, y, z) per key.
AssignedValues == {<<2, 3, 1>>, <<3>>, <<1, 1, 2, 3, 2, 2>>}

\* Keys read: single wavelengths as iterables and as numerics.
ReadKeys == {Iterable(<<w>>) : w \in Wavelengths}

InitCMFS ==
    /\ \E S \in SUBSET Wavelengths :
         /\ Cardinality(S) >= 2
         /\ data = TriTable([w \in S |-> 1])
    /\ latest = [w \in DOMAIN data.x |->
                    [value |-> <<data.x[w], data.y[w], data.z[w]>>, at |-> 0]]
    /\ interpolators = [fs |-> NoInterpolators, at |-> 0, prev |-> 0]
    /\ calls = 0
    /\ _MUNSELL_VALUE_ASTM_D1535_08_INTERPOLATOR_CACHE = None
    /\ constructed = 0
    /\ op = "idle"
    /\ arg = [kind |-> "none"]
    /\ res = Ret(None)

TriSetItem ==
    /\ op = "idle"
    /\ calls < MaxCalls
    /\ \E w \in AssignedKeys, v \in AssignedValues :
        /\ op' = "TriSpectralPowerDistribution.__setitem__"
        /\ arg' = [wavelength |-> w, value |-> v]
        /\ data' = TriSpectralPowerDistribution__setitem__(data, w, v)
        /\ res' = Ret(None)
        /\ calls' = calls + 1
        /\ latest' = Assigned(latest, as_array_1d(w), v, 1, calls + 1)
        /\ UNCHANGED <<interpolators, munsellVars>>

TriGetItem ==
    /\ op = "idle"
    /\ calls < MaxCalls
    /\ \E w \in ReadKeys :
        /\ op' = "TriSpectralPowerDistribution.__getitem__"
        /\ arg' = [wavelength |-> w]
        /\ res' = TriSpectralPowerDistribution__getitem__(data, w)
        /\ calls' = calls + 1
        /\ UNCHANGED <<data, interpolators, latest, munsellVars>>

TriGet ==
    /\ op = "idle"
    /\ calls < MaxCalls
    /\ \E w \in Wavelengths :
        /\ op' = "TriSpectralPowerDistribution.get"
        /\ arg' = [wavelength |-> Numeric(w), default |-> None]
        /\ res' = Ret(TriSpectralPowerDistribution_get(data, Numeric(w), None))
        /\ calls' = calls + 1
        /\ UNCHANGED <<data, interpolators, latest, munsellVars>>

Built(r, n, last) ==
    IF r.interpolators = NoInterpolators THEN last
    ELSE [fs |-> r.interpolators, at |-> n, prev |-> last.at]

WavelengthToXYZ ==
    /\ op = "idle"
    /\ calls < MaxCalls
    /\ \E w \in QueryWavelengths :
        /\ op' = "wavelength_to_XYZ"
        /\ arg' = [wavelength |-> Numeric(w)]
        /\ res' = wavelength_to_XYZ_vectorise(Numeric(w), data, interpolators.fs)
        /\ interpolators' = Built(res', calls + 1, interpolators)
        /\ calls' = calls + 1
        /\ UNCHANGED <<data, latest, munsellVars>>

NextCMFS == TriSetItem \/ TriGetItem \/ TriGet \/ WavelengthToXYZ \/ Return

SpecCMFS == InitCMFS /\ [][NextCMFS]_vars

\* The interpolators of the mapping recorded by the history h.
InterpolatorsOf(h, kind) ==
    [i \in 1..3 |->
        [kind |-> kind, x |-> Sorted(DOMAIN h),
         y |-> [k \in 1..Cardinality(DOMAIN h) |-> h[Sorted(DOMAIN h)[k]].value[i]]]]

MaxY == 10

MunsellInputs ==
    [kind : {"numeric"}, w : 0..MaxY]
    \cup [kind : {"iterable"},
          ws : UNION {[1..k -> {2 * i : i \in 0..(MaxY \div 2)}] : k \in 1..2}]

\* Extrapolator1d(LinearInterpolator1d(...)).__call__(Y): the values of the
\* interpolator object f at Y.
Extrapolator1d__call__(f, Y) == [interpolator |-> f, Y |-> Y]

\* Mutant: the interpolator is constructed on every call.
_munsell_value_ASTMD153508_interpolator_rebuilt(cache, n) ==
    n + 1

\* The cache after _munsell_value_ASTMD153508_interpolator(), n interpolators
\* having been constructed before.
_munsell_value_ASTMD153508_interpolator(cache, n) ==
    IF cache = None THEN n + 1 ELSE cache

InitMunsell ==
    /\ data = <<>>
    /\ Untouched
    /\ op = "idle"
    /\ arg = [kind |-> "none"]
    /\ res = Ret(None)

Call_munsell_value_ASTMD153508_interpolator ==
    /\ op = "idle"
    /\ calls < MaxCalls
    /\ op' = "_munsell_value_ASTMD153508_interpolator"
    /\ arg' = [kind |-> "none"]
    /\ _MUNSELL_VALUE_ASTM_D1535_08_INTERPOLATOR_CACHE' =
         _munsell_value_ASTMD153508_interpolator(_MUNSELL_VALUE_ASTM_D1535_08_INTERPOLATOR_CACHE, constructed)
    /\ constructed' =
         IF _MUNSELL_VALUE_ASTM_D1535_08_INTERPOLATOR_CACHE' = _MUNSELL_VALUE_ASTM_D1535_08_INTERPOLATOR_CACHE
         THEN constructed ELSE constructed + 1
    /\ res' = Ret(_MUNSELL_VALUE_ASTM_D1535_08_INTERPOLATOR_CACHE')
    /\ calls' = calls + 1
    /\ UNCHANGED <<data, interpolators, latest>>

Call_munsell_value_ASTMD153508 ==
    /\ op = "idle"
    /\ calls < MaxCalls
    /\ \E Y \in MunsellInputs :
        /\ op' = "munsell_value_ASTMD153508"
        /\ arg' = [Y |-> Y]
        /\ _MUNSELL_VALUE_ASTM_D1535_08_INTERPOLATOR_CACHE' =
             _munsell_value_ASTMD153508_interpolator(_MUNSELL_VALUE_ASTM_D1535_08_INTERPOLATOR_CACHE, constructed)
        /\ constructed' =
             IF _MUNSELL_VALUE_ASTM_D1535_08_INTERPOLATOR_CACHE' = _MUNSELL_VALUE_ASTM_D1535_08_INTERPOLATOR_CACHE
             THEN constructed ELSE constructed + 1
        /\ res' = Ret(Extrapolator1d__call__(_MUNSELL_VALUE_ASTM_D1535_08_INTERPOLATOR_CACHE', as_array_1d(Y)))
        /\ calls' = calls + 1
        /\ UNCHANGED <<data, interpolators, latest>>

NextMunsell ==
    \/ Call_munsell_value_ASTMD153508_interpolator
    \/ Call_munsell_value_ASTMD153508
    \/ Return

SpecMunsell == InitMunsell /\ [][NextMunsell]_vars

\* C15: the interpolator of munsell_value_ASTMD153508 is constructed exactly
\* once, by the first call, which finds the cache None; every later call uses
\* that same object, and the cache, once set, is never reset or replaced.
C15_ConstructedOnce ==
    [][/\ (_MUNSELL_VALUE_ASTM_D1535_08_INTERPOLATOR_CACHE = None /\ op' # "idle") =>
            /\ _MUNSELL_VALUE_ASTM_D1535_08_INTERPOLATOR_CACHE' # None
            /\ constructed' = constructed + 1
            /\ constructed' = 1
       /\ _MUNSELL_VALUE_ASTM_D1535_08_INTERPOLATOR_CACHE # None =>
            /\ _MUNSELL_VALUE_ASTM_D1535_08_INTERPOLATOR_CACHE' = _MUNSELL_VALUE_ASTM_D1535_08_INTERPOLATOR_CACHE
            /\ constructed' = constructed
       /\ op' = "munsell_value_ASTMD153508" =>
            res'.val.interpolator = _MUNSELL_VALUE_ASTM_D1535_08_INTERPOLATOR_CACHE']_vars

\* A third call answered by the interpolator the first call constructed.
C15_Witness ==
    /\ op = "munsell_value_ASTMD153508"
    /\ calls = 3
    /\ constructed = 1
    /\ res.val.interpolator = 1
    /\ _MUNSELL_VALUE_ASTM_D1535_08_INTERPOLATOR_CACHE = 1


(***************************************************************************)
(* Exact arithmetic on values too large for machine integers: magnitudes   *)
(* are sequences of base-BigBase digits, least significant first; a signed *)
(* integer is [neg, mag]; a quotient is [n, d] with d >= 0 (d = 0: an      *)
(* infinity for n # 0, nan for n = 0), not reduced to lowest terms.        *)
(***************************************************************************)
BigBase == 10000

\* The i-th digit of a, 0 beyond its length.
Digit(a, i) == IF i <= Len(a) THEN a[i] ELSE 0

\* a without leading zeros
MagTrim(a) ==
    IF \A i \in 1..Len(a) : a[i] = 0 THEN <<>>
    ELSE SubSeq(a, 1, SetMax({i \in 1..Len(a) : a[i] # 0}))

RECURSIVE MagOf(_)
MagOf(n) == IF n = 0 THEN <<>> ELSE <<n % BigBase>> \o MagOf(n \div BigBase)

\* A carry reaches position i of the digit sums s (each below 2 * BigBase).
Carried(s, i) ==
    \E j \in 1..(i - 1) :
        s[j] >= BigBase /\ \A k \in (j + 1)..(i - 1) : s[k] = BigBase - 1

\* The digits of the digit sums s, the last of which is 0.
Propagate(s) ==
    MagTrim([i \in 1..Len(s) |-> (s[i] + (IF Carried(s, i) THEN 1 ELSE 0)) % BigBase])

MagAdd(a, b) ==
    Propagate([i \in 1..((IF Len(a) > Len(b) THEN Len(a) ELSE Len(b)) + 1) |->
                  Digit(a, i) + Digit(b, i)])

\* A borrow reaches position i of a - b.
Borrowed(a, b, i) ==
    \E j \in 1..(i - 1) :
        a[j] < Digit(b, j) /\ \A k \in (j + 1)..(i - 1) : a[k] = Digit(b, k)

\* a - b for a >= b
MagSub(a, b) ==
    MagTrim([i \in 1..Len(a) |->
                (a[i] - Digit(b, i) - (IF Borrowed(a, b, i) THEN 1 ELSE 0) + BigBase) % BigBase])

\* a < b for magnitudes without leading zeros
MagLess(a, b) ==
    \/ Len(a) < Len(b)
    \/ /\ Len(a) = Len(b)
       /\ \E i \in 1..Len(a) : a[i] < b[i] /\ \A k \in (i + 1)..Len(a) : a[k] = b[k]

RECURSIVE SumRange(_, _, _)
SumRange(f, lo, hi) ==
    IF lo > hi THEN 0
    ELSE IF lo = hi THEN f[lo]
    ELSE SumRange(f, lo, (lo + hi) \div 2) + SumRange(f, (lo + hi) \div 2 + 1, hi)

\* The digit products a[i] * b[j] with i + j = k + 1.
ColumnProducts(a, b, k) ==
    [i \in (IF k + 1 - Len(b) > 1 THEN k + 1 - Len(b) ELSE 1)..(IF k < Len(a) THEN k ELSE Len(a)) |->
        a[i] * b[k + 1 - i]]

\* The sums of the low and of the high digits of the products of column k.
ColumnLow(p) == SumRange([i \in DOMAIN p |-> p[i] % BigBase], SetMin(DOMAIN p), SetMax(DOMAIN p))

ColumnHigh(p) == SumRange([i \in DOMAIN p |-> p[i] \div BigBase], SetMin(DOMAIN p), SetMax(DOMAIN p))

\* The magnitude with the column values r (each below BigBase * BigBase).
Canonical(r) ==
    MagAdd(MagTrim([k \in 1..Len(r) |-> r[k] % BigBase]),
           MagTrim(<<0>> \o [k \in 1..Len(r) |-> r[k] \div BigBase]))

MagMul(a, b) ==
    IF a = <<>> \/ b = <<>> THEN <<>>
    ELSE MagAdd(Canonical([k \in 1..(Len(a) + Len(b) - 1) |-> ColumnLow(ColumnProducts(a, b, k))]),
                MagTrim(<<0>> \o Canonical([k \in 1..(Len(a) + Len(b) - 1) |-> ColumnHigh(ColumnProducts(a, b, k))])))

BigOf(n) == [neg |-> n < 0, mag |-> MagOf(Abs(n))]

BigNeg(a) == IF a.mag = <<>> THEN a ELSE [neg |-> ~a.neg, mag |-> a.mag]

BigAdd(a, b) ==
    IF a.neg = b.neg THEN [neg |-> a.neg, mag |-> MagAdd(a.mag, b.mag)]
    ELSE IF a.mag = b.mag THEN BigOf(0)
    ELSE IF MagLess(a.mag, b.mag)
    THEN [neg |-> b.neg, mag |-> MagSub(b.mag, a.mag)]
    ELSE [neg |-> a.neg, mag |-> MagSub(a.mag, b.mag)]

BigMul(a, b) ==
    [neg |-> a.mag # <<>> /\ b.mag # <<>> /\ a.neg # b.neg, mag |-> MagMul(a.mag, b.mag)]

RECURSIVE BigPow(_, _)
BigPow(a, k) == IF k = 0 THEN BigOf(1) ELSE BigMul(a, BigPow(a, k - 1))

\* -1, 0 or 1
BigSign(a) == IF a.mag = <<>> THEN 0 ELSE IF a.neg THEN -1 ELSE 1

\* The float of the integer n.
QOf(n) == [n |-> BigOf(n), d |-> BigOf(1)]

\* The float of the decimal literal m / 10^e.
Dec(m, e) == [n |-> BigOf(m), d |-> BigPow(BigOf(10), e)]

QAdd(a, b) ==
    IF a.d.mag = <<>> /\ b.d.mag = <<>> /\ BigSign(a.n) = BigSign(b.n) THEN a
    ELSE [n |-> BigAdd(BigMul(a.n, b.d), BigMul(b.n, a.d)), d |-> BigMul(a.d, b.d)]

QNeg(a) == [n |-> BigNeg(a.n), d |-> a.d]

QSub(a, b) == QAdd(a, QNeg(b))

QMul(a, b) == [n |-> BigMul(a.n, b.n), d |-> BigMul(a.d, b.d)]

\* a / b; a division by zero yields an infinity or nan, as numpy's does.
QDiv(a, b) ==
    IF b.n.neg THEN [n |-> BigNeg(BigMul(a.n, b.d)), d |-> BigMul(a.d, BigNeg(b.n))]
    ELSE [n |-> BigMul(a.n, b.d), d |-> BigMul(a.d, b.n)]

RECURSIVE QPow(_, _)
QPow(a, k) == IF k = 0 THEN QOf(1) ELSE QMul(a, QPow(a, k - 1))

\* a and b are the same value (two nans, or two infinities of one sign, count
\* as the same).
QSame(a, b) ==
    IF a.d.mag = <<>> \/ b.d.mag = <<>>
    THEN a.d.mag = <<>> /\ b.d.mag = <<>> /\ BigSign(a.n) = BigSign(b.n)
    ELSE BigMul(a.n, b.d) = BigMul(b.n, a.d)

(***************************************************************************)
(* colour.temperature: CCT_to_xy_CIE_D (SpecCCT).                          *)
(***************************************************************************)
\* -4.607 * 10 ** 9 / CCT ** 3 + 2.9678 * 10 ** 6 / CCT ** 2
\*     + 0.09911 * 10 ** 3 / CCT + 0.244063
CCT_to_xy_CIE_D_x_low(CCT) ==
    QAdd(QAdd(QAdd(QDiv(QMul(Dec(-4607, 3), QPow(QOf(10), 9)), QPow(QOf(CCT), 3)),
                   QDiv(QMul(Dec(29678, 4), QPow(QOf(10), 6)), QPow(QOf(CCT), 2))),
              QDiv(QMul(Dec(9911, 5), QPow(QOf(10), 3)), QOf(CCT))),
         Dec(244063, 6))

\* -2.0064 * 10 ** 9 / CCT ** 3 + 1.9018 * 10 ** 6 / CCT ** 2
\*     + 0.24748 * 10 ** 3 / CCT + 0.23704
CCT_to_xy_CIE_D_x_high(CCT) ==
    QAdd(QAdd(QAdd(QDiv(QMul(Dec(-20064, 4), QPow(QOf(10), 9)), QPow(QOf(CCT), 3)),
                   QDiv(QMul(Dec(19018, 4), QPow(QOf(10), 6)), QPow(QOf(CCT), 2))),
              QDiv(QMul(Dec(24748, 5), QPow(QOf(10), 3)), QOf(CCT))),
         Dec(23704, 5))

\* Mutant: the low polynomial is selected below 7000 only.
CCT_to_xy_CIE_D_x_below_only(CCT) ==
    IF CCT < 7000 THEN CCT_to_xy_CIE_D_x_low(CCT) ELSE CCT_to_xy_CIE_D_x_high(CCT)

\* np.where(CCT <= 7000, ..., ...) at one element
CCT_to_xy_CIE_D_x(CCT) ==
    IF CCT <= 7000 THEN CCT_to_xy_CIE_D_x_low(CCT) ELSE CCT_to_xy_CIE_D_x_high(CCT)

\* -3 * x ** 2 + 2.87 * x - 0.275
CCT_to_xy_CIE_D_y(x) ==
    QSub(QAdd(QMul(QOf(-3), QPow(x, 2)), QMul(Dec(287, 2), x)), Dec(275, 3))

\* np.any(CCT[np.logical_or(CCT < 4000, CCT > 25000)]): some selected
\* element is non-zero.
CCT_to_xy_CIE_D_warns(CCT) ==
    \E i \in 1..Len(CCT) : (CCT[i] < 4000 \/ CCT[i] > 25000) /\ CCT[i] # 0

\* as_stack((x, y)) at one element
as_stack_xy(x) == <<x, CCT_to_xy_CIE_D_y(x)>>

\* The result of a call: the (x, y) of every element, in order, and whether
\* the warning was emitted.
CCT_to_xy_CIE_D_vectorise(CCT) ==
    LET T == as_array_1d(CCT)
    IN  [val |-> [i \in 1..Len(T) |-> as_stack_xy(CCT_to_xy_CIE_D_x(T[i]))],
         warning |-> CCT_to_xy_CIE_D_warns(T)]

\* Correlated colour temperatures at and next to the bounds of the domain and
\* the switch of polynomial, and 0.
Temperatures == {0, 3999, 4000, 7000, 7001, 25000, 25001}

MaxCCTs == 2

InitCCT ==
    /\ data = <<>>
    /\ Untouched
    /\ op = "input"
    /\ res = Ret(None)
    /\ \/ \E T \in Temperatures : arg = [CCT |-> Numeric(T)]
       \/ \E k \in 1..MaxCCTs : \E T \in [1..k -> Temperatures] : arg = [CCT |-> Iterable(T)]

Call_CCT_to_xy_CIE_D ==
    /\ op = "input"
    /\ op' = "CCT_to_xy_CIE_D"
    /\ res' = CCT_to_xy_CIE_D_vectorise(arg.CCT)
    /\ UNCHANGED <<data, arg, cmfsVars, munsellVars>>

NextCCT == Call_CCT_to_xy_CIE_D

SpecCCT == InitCCT /\ [][NextCCT]_vars

\* (a + b T + c T^2 + d T^3) / (10^6 T^3) for coefficients in millionths
CubicOverCube(a, b, c, d, T) ==
    [n |-> BigAdd(BigAdd(BigAdd(a, BigMul(b, BigOf(T))),
                         BigMul(c, BigPow(BigOf(T), 2))),
                  BigMul(d, BigPow(BigOf(T), 3))),
     d |-> BigMul(BigPow(BigOf(10), 6), BigPow(BigOf(T), 3))]

\* C16: for every element of CCT on its own, x is the polynomial with
\* coefficients (-4.607e9, 2.9678e6, 0.09911e3, 0.244063) when the element is
\* <= 7000, 7000 included, and the one with (-2.0064e9, 1.9018e6, 0.24748e3,
\* 0.23704) when it is > 7000, and y = -3 x^2 + 2.87 x - 0.275.
C16_PolynomialBranch ==
    op = "CCT_to_xy_CIE_D" =>
        LET T == as_array_1d(arg.CCT)
        IN  /\ Len(res.val) = Len(T)
            /\ \A i \in 1..Len(T) :
                 LET x == res.val[i][1]
                     y == res.val[i][2]
                 IN  /\ T[i] # 0 /\ T[i] <= 7000 =>
                          QSame(x, CubicOverCube(BigMul(BigOf(-4607), BigPow(BigOf(10), 12)),
                                                 BigMul(BigOf(29678), BigPow(BigOf(10), 8)),
                                                 BigOf(99110000), BigOf(244063), T[i]))
                     /\ T[i] > 7000 =>
                          QSame(x, CubicOverCube(BigMul(BigOf(-20064), BigPow(BigOf(10), 11)),
                                                 BigMul(BigOf(19018), BigPow(BigOf(10), 8)),
                                                 BigOf(247480000), BigOf(237040), T[i]))
                     /\ x.d.mag # <<>> =>
                          \* 1000 y d^2 = -3000 n^2 + 2870 n d - 275 d^2
                          /\ y.d.mag # <<>>
                          /\ BigMul(BigMul(BigOf(1000), y.n), BigMul(x.d, x.d))
                               = BigMul(y.d,
                                    BigAdd(BigAdd(BigMul(BigOf(-3000), BigMul(x.n, x.n)),
                                                  BigMul(BigOf(2870), BigMul(x.n, x.d))),
                                           BigMul(BigOf(-275), BigMul(x.d, x.d))))

\* Two elements on either side of the switch: 7000 gets the low polynomial's
\* value, 7001 the high polynomial's, and the two polynomials differ at both.
C16_Witness ==
    /\ op = "CCT_to_xy_CIE_D"
    /\ arg.CCT = Iterable(<<7000, 7001>>)
    /\ QSame(res.val[1][1], CCT_to_xy_CIE_D_x_low(7000))
    /\ ~QSame(res.val[1][1], CCT_to_xy_CIE_D_x_high(7000))
    /\ QSame(res.val[2][1], CCT_to_xy_CIE_D_x_high(7001))
    /\ ~QSame(res.val[2][1], CCT_to_xy_CIE_D_x_low(7001))

\* C17: the domain warning is emitted whenever at least one element of CCT is
\* below 4000 or above 25000 and not when all are within [4000, 25000]; the
\* xy of every element is returned in both cases.
C17_DomainWarning ==
    op = "CCT_to_xy_CIE_D" =>
        LET T == as_array_1d(arg.CCT)
        IN  /\ res.warning <=> \E i \in 1..Len(T) : T[i] < 4000 \/ T[i] > 25000
            /\ Len(res.val) = Len(T)

\* C18: with a transform name that is not in the registry, the adaptation
\* matrix, asked for directly or through XYZ_to_RGB, RGB_to_XYZ or
\* RGB_to_RGB, fails with an error that names the transform and lists the
\* registered ones, raised before any array computation; a registered name
\* is found in any letter case.
C18_UnknownTransform ==
    op \in {"chromatic_adaptation_matrix_VonKries", "XYZ_to_RGB", "RGB_to_XYZ", "RGB_to_RGB"} =>
        IF arg.transform \in {"CAT02", "Bradford", "BRADFORD", "Von Kries", "XYZ Scaling"}
        THEN ~IsExc(res)
        ELSE /\ IsExc(res)
             /\ res.exc = "KeyError"
             /\ res.transform = arg.transform
             /\ res.supported = {"cat02", "bradford", "von kries", "xyz scaling"}
             /\ res.before = <<>>


(***************************************************************************)
(* colour.difference: the CIE 1976 colour difference and its variants.     *)
(***************************************************************************)
\* np.sqrt, kept exact: the non-negative root of its radicand.
sqrt(s) == [sqrt |-> s]

Square(n) == n * n

\* The triplet of row r of an array whose last axis holds three elements.
Triplet(a, r) == SubSeq(a.flat, 3 * (r - 1) + 1, 3 * r)

\* colour.algebra.euclidean_distance(a, b): the norm of a - b along the last
\* axis; a number for two triplets, an array of the leading shape otherwise.
euclidean_distance(a, b) ==
    LET d == [r \in 1..(Len(a.flat) \div 3) |->
                sqrt(Square(Triplet(a, r)[1] - Triplet(b, r)[1])
                     + Square(Triplet(a, r)[2] - Triplet(b, r)[2])
                     + Square(Triplet(a, r)[3] - Triplet(b, r)[3]))]
    IN  IF Len(a.shape) = 1 THEN d[1]
        ELSE Arr(SubSeq(a.shape, 1, Len(a.shape) - 1), d)

delta_E_CIE1976(Lab_1, Lab_2) == euclidean_distance(Lab_1, Lab_2)

\* np.linalg.norm(x, axis=1) of an (N, k) array of differences.
norm_axis1(rows) ==
    [r \in 1..Len(rows) |->
        sqrt(SumRange([c \in 1..Len(rows[r]) |-> Square(rows[r][c])],
                      1, Len(rows[r])))]

\* np.reshape(x, shape) of a one-dimensional x, the axis given as -1 inferred.
reshape_1d(x, shape) ==
    LET known == Product(SubSeq(shape, 1, Len(shape) - 1))
        last == shape[Len(shape)]
    IN  Arr(SubSeq(shape, 1, Len(shape) - 1)
              \o <<IF last = -1 THEN Len(x) \div known ELSE last>>, x)

\* as_numeric(x) of an array: a one-element array becomes a number.
as_numeric_nd(a) == IF Len(a.flat) = 1 THEN a.flat[1] ELSE a

delta_E_CIE1976_vectorise(Lab1, Lab2) ==
    LET shape == as_shape(Lab1)
        rows1 == Rows(Lab1, 3)
        rows2 == Rows(Lab2, 3)
        delta_E == norm_axis1([r \in 1..Len(rows1) |->
                                  [c \in 1..3 |-> rows1[r][c] - rows2[r][c]]])
    IN  as_numeric_nd(reshape_1d(delta_E, auto_axis(shape)))

\* np.rollaxis(x, -1)[:n]: the first n planes along the last axis, each the
\* elements of one channel in row order.
rollaxis_last(x, n) ==
    LET k == x.shape[Len(x.shape)]
    IN  [c \in 1..n |-> [r \in 1..(Len(x.flat) \div k) |-> x.flat[k * (r - 1) + c]]]

\* Mutant: only the first two channels are taken.
delta_E_CIE1976_alternate_two_channels(Lab1, Lab2) ==
    LET p1 == rollaxis_last(Lab1, 2)
        p2 == rollaxis_last(Lab2, 2)
        d == [r \in 1..Len(p1[1]) |->
                sqrt(Square(p2[1][r] - p1[1][r]) + Square(p2[2][r] - p1[2][r]))]
    IN  IF Len(Lab1.shape) = 1 THEN d[1]
        ELSE Arr(SubSeq(Lab1.shape, 1, Len(Lab1.shape) - 1), d)

delta_E_CIE1976_alternate(Lab1, Lab2) ==
    LET p1 == rollaxis_last(Lab1, 3)
        p2 == rollaxis_last(Lab2, 3)
        d == [r \in 1..Len(p1[1]) |->
                sqrt(Square(p2[1][r] - p1[1][r]) + Square(p2[2][r] - p1[2][r])
                     + Square(p2[3][r] - p1[3][r]))]
    IN  IF Len(Lab1.shape) = 1 THEN d[1]
        ELSE Arr(SubSeq(Lab1.shape, 1, Len(Lab1.shape) - 1), d)

\* Sample L*a*b* triplets: two at the same distance from the first.
Labs == {<<0, 0, 0>>, <<1, 2, -2>>, <<1, -2, 2>>}

InitCIE1976 ==
    /\ data = <<>>
    /\ Untouched
    /\ op = "input"
    /\ res = Ret(None)
    /\ \E sh \in Shapes :
         \E rows1 \in [1..(Product(sh) \div 3) -> Labs] :
           \E rows2 \in [1..(Product(sh) \div 3) -> Labs] :
             arg = [Lab_1 |-> Arr(sh, Flatten(rows1)),
                    Lab_2 |-> Arr(sh, Flatten(rows2))]

Call_delta_E_CIE1976 ==
    /\ op = "input"
    /\ op' = "delta_E_CIE1976"
    /\ res' = Ret(delta_E_CIE1976(arg.Lab_1, arg.Lab_2))
    /\ UNCHANGED <<data, arg, cmfsVars, munsellVars>>

Call_delta_E_CIE1976_vectorise ==
    /\ op = "input"
    /\ op' = "delta_E_CIE1976_vectorise"
    /\ res' = Ret(delta_E_CIE1976_vectorise(arg.Lab_1, arg.Lab_2))
    /\ UNCHANGED <<data, arg, cmfsVars, munsellVars>>

Call_delta_E_CIE1976_alternate ==
    /\ op = "input"
    /\ op' = "delta_E_CIE1976_alternate"
    /\ res' = Ret(delta_E_CIE1976_alternate(arg.Lab_1, arg.Lab_2))
    /\ UNCHANGED <<data, arg, cmfsVars, munsellVars>>

NextCIE1976 ==
    \/ Call_delta_E_CIE1976
    \/ Call_delta_E_CIE1976_vectorise
    \/ Call_delta_E_CIE1976_alternate

SpecCIE1976 == InitCIE1976 /\ [][NextCIE1976]_vars

\* The numbers of a result, in row order.
Elements(v) == IF "flat" \in DOMAIN v THEN v.flat ELSE <<v>>

delta_E_CIE1994(Lab_1, Lab_2, textiles) ==
    [function |-> "delta_E_CIE1994", Lab_1 |-> Lab_1, Lab_2 |-> Lab_2,
     textiles |-> textiles]

delta_E_CIE2000(Lab_1, Lab_2, textiles) ==
    [function |-> "delta_E_CIE2000", Lab_1 |-> Lab_1, Lab_2 |-> Lab_2,
     textiles |-> textiles]

delta_E_CMC(Lab_1, Lab_2, l, c) ==
    [function |-> "delta_E_CMC", Lab_1 |-> Lab_1, Lab_2 |-> Lab_2,
     l |-> l, c |-> c]

\* A keyword argument, or the parameter's default when it is not given.
Keyword(kwargs, name, default) ==
    IF name \in DOMAIN kwargs THEN kwargs[name] ELSE default

\* function(Lab_1, Lab_2, **kwargs): a keyword the function does not have is
\* a TypeError.
Apply(function, Lab_1, Lab_2, kwargs) ==
    CASE function = "delta_E_CIE1976" ->
           IF DOMAIN kwargs = {} THEN Ret(delta_E_CIE1976(Lab_1, Lab_2))
           ELSE Raise("TypeError")
      [] function = "delta_E_CIE1994" ->
           IF DOMAIN kwargs \subseteq {"textiles"}
           THEN Ret(delta_E_CIE1994(Lab_1, Lab_2, Keyword(kwargs, "textiles", FALSE)))
           ELSE Raise("TypeError")
      [] function = "delta_E_CIE2000" ->
           IF DOMAIN kwargs \subseteq {"textiles"}
           THEN Ret(delta_E_CIE2000(Lab_1, Lab_2, Keyword(kwargs, "textiles", FALSE)))
           ELSE Raise("TypeError")
      [] OTHER ->
           IF DOMAIN kwargs \subseteq {"l", "c"}
           THEN Ret(delta_E_CMC(Lab_1, Lab_2, Keyword(kwargs, "l", 2), Keyword(kwargs, "c", 1)))
           ELSE Raise("TypeError")

\* CaseInsensitiveMapping.__setitem__: the key is stored lower-cased.
CaseInsensitiveMapping__setitem__(mapping, key, value) ==
    [k \in DOMAIN mapping \cup {Lower(key)} |->
        IF k = Lower(key) THEN value ELSE mapping[k]]

\* DELTA_E_METHODS: the four methods, then the three aliases.
DELTA_E_METHODS ==
    LET methods == CaseInsensitiveMapping__setitem__(CaseInsensitiveMapping__setitem__(CaseInsensitiveMapping__setitem__(CaseInsensitiveMapping__setitem__(<<>>,
                       "CIE 1976", "delta_E_CIE1976"),
                       "CIE 1994", "delta_E_CIE1994"),
                       "CIE 2000", "delta_E_CIE2000"),
                       "CMC", "delta_E_CMC")
    IN  CaseInsensitiveMapping__setitem__(CaseInsensitiveMapping__setitem__(CaseInsensitiveMapping__setitem__(methods,
            "cie1976", methods[Lower("CIE 1976")]),
            "cie1994", methods[Lower("CIE 1994")]),
            "cie2000", methods[Lower("CIE 2000")])

\* Mutant: the default method is 'CIE 2000'.
delta_E_default_CIE2000(Lab_1, Lab_2, method, kwargs) ==
    LET name == IF method = <<>> THEN "CIE 2000" ELSE method[1]
    IN  IF Lower(name) \notin DOMAIN DELTA_E_METHODS
        THEN [exc |-> "KeyError", key |-> name, before |-> <<>>]
        ELSE Apply(DELTA_E_METHODS[Lower(name)], Lab_1, Lab_2, kwargs)

\* delta_E(Lab_1, Lab_2, method='CMC', **kwargs); method is <<>> when the
\* caller leaves it out.  The lookup is the first statement; what
\* filter_kwargs returns is dropped and kwargs are passed on as given.
delta_E(Lab_1, Lab_2, method, kwargs) ==
    LET name == IF method = <<>> THEN "CMC" ELSE method[1]
    IN  IF Lower(name) \notin DOMAIN DELTA_E_METHODS
        THEN [exc |-> "KeyError", key |-> name, before |-> <<>>]
        ELSE Apply(DELTA_E_METHODS[Lower(name)], Lab_1, Lab_2, kwargs)

\* Method names: the registered ones in three letter cases, the aliases and
\* two names that are not registered.
MethodNames ==
    {"CIE 1976", "cie 1976", "Cie 1976", "CIE 1994", "cie 1994", "Cie 1994",
     "CIE 2000", "cie 2000", "Cie 2000", "CMC", "cmc", "Cmc",
     "cie1976", "cie1994", "cie2000", "CIE 1931", "cie94"}

Kwargs == {<<>>, [textiles |-> TRUE], [l |-> 1]}

InitDeltaE ==
    /\ data = <<>>
    /\ Untouched
    /\ op = "input"
    /\ res = Ret(None)
    /\ \E sh \in {s \in Shapes : Product(s) = 3} :
         \E Lab_1 \in Labs : \E Lab_2 \in Labs :
           \E method \in {<<>>} \cup {<<n>> : n \in MethodNames} :
             \E kwargs \in Kwargs :
               arg = [Lab_1 |-> Arr(sh, Lab_1), Lab_2 |-> Arr(sh, Lab_2),
                      method |-> method, kwargs |-> kwargs]

Call_delta_E ==
    /\ op = "input"
    /\ op' = "delta_E"
    /\ res' = delta_E(arg.Lab_1, arg.Lab_2, arg.method, arg.kwargs)
    /\ UNCHANGED <<data, arg, cmfsVars, munsellVars>>

NextDeltaE == Call_delta_E

SpecDeltaE == InitDeltaE /\ [][NextDeltaE]_vars

\* C19: delta_E returns what the function registered for its method returns
\* for the same arguments: delta_E_CIE1976, delta_E_CIE1994, delta_E_CIE2000
\* and delta_E_CMC for 'CIE 1976', 'CIE 1994', 'CIE 2000' and 'CMC' in any
\* letter case, the first three also for 'cie1976', 'cie1994', 'cie2000';
\* delta_E_CMC when no method is given; any other name raises a lookup error
\* before anything is computed.
C19_MethodDispatch ==
    op = "delta_E" =>
        LET m == IF arg.method = <<>> THEN "CMC" ELSE arg.method[1]
        IN  CASE m \in {"CIE 1976", "cie 1976", "Cie 1976", "cie1976"} ->
                   res = Apply("delta_E_CIE1976", arg.Lab_1, arg.Lab_2, arg.kwargs)
              [] m \in {"CIE 1994", "cie 1994", "Cie 1994", "cie1994"} ->
                   res = Apply("delta_E_CIE1994", arg.Lab_1, arg.Lab_2, arg.kwargs)
              [] m \in {"CIE 2000", "cie 2000", "Cie 2000", "cie2000"} ->
                   res = Apply("delta_E_CIE2000", arg.Lab_1, arg.Lab_2, arg.kwargs)
              [] m \in {"CMC", "cmc", "Cmc"} ->
                   res = Apply("delta_E_CMC", arg.Lab_1, arg.Lab_2, arg.kwargs)
              [] OTHER ->
                   /\ IsExc(res)
                   /\ res.exc = "KeyError"
                   /\ res.before = <<>>

C19_Witness ==
    /\ op = "delta_E"
    /\ arg.method = <<>>
    /\ DOMAIN arg.kwargs = {}
    /\ arg.Lab_1 = Arr(<<3>>, <<0, 0, 0>>)
    /\ arg.Lab_2 = Arr(<<3>>, <<1, 2, -2>>)
    /\ res = Ret(delta_E_CMC(arg.Lab_1, arg.Lab_2, 2, 1))
    /\ delta_E(arg.Lab_1, arg.Lab_2, <<"cie1976">>, <<>>) = Ret(sqrt(9))
    /\ IsExc(delta_E(arg.Lab_1, arg.Lab_2, <<"cie94">>, <<>>))

\* The keywords each delta E function has.
AcceptedKeywords(function) ==
    CASE function = "delta_E_CIE1976" -> {}
      [] function \in {"delta_E_CIE1994", "delta_E_CIE2000"} -> {"textiles"}
      [] OTHER -> {"l", "c"}

\* C27: delta_E passes to the selected method only the keywords the method
\* has: a keyword it does not take is dropped and the call returns what it
\* returns without that keyword; the keywords it takes are passed unchanged.
C27_KeywordsFiltered ==
    (op = "delta_E" /\ arg.method # <<>> /\ Lower(arg.method[1]) \in DOMAIN DELTA_E_METHODS) =>
        LET function == DELTA_E_METHODS[Lower(arg.method[1])]
            kept == [k \in DOMAIN arg.kwargs \cap AcceptedKeywords(function) |-> arg.kwargs[k]]
        IN  /\ ~IsExc(res)
            /\ res = Apply(function, arg.Lab_1, arg.Lab_2, kept)


(***************************************************************************)
(* colour.models.cie_xyy: XYZ_to_xyY and XYZ_to_xy (SpecXYZ).              *)
(***************************************************************************)
\* np.where(XYZ == 0, np.dstack((illuminant[:, 0], illuminant[:, 1], Y)),
\*          np.dstack((X / (X + Y + Z), Y / (X + Y + Z), Y))) for one row:
\* the condition is taken element by element.
XYZ_to_xyY_row(XYZ, illuminant) ==
    LET X == XYZ[1]
        Y == XYZ[2]
        Z == XYZ[3]
        sum == RAdd(RAdd(X, Y), Z)
        substitute == <<illuminant[1], illuminant[2], Y>>
        regular == <<RDiv(X, sum), RDiv(Y, sum), Y>>
    IN  [c \in 1..3 |-> IF REq(XYZ[c], Zero) THEN substitute[c] ELSE regular[c]]

\* The illuminant is resized to the shape of the (N, 3) view of XYZ.
XYZ_to_xyY_vectorise(XYZ, illuminant) ==
    LET shape == as_shape(XYZ)
        rows == Rows(XYZ, 3)
        resized == Arr(<<Len(rows), 3>>, np_resize(illuminant.flat, 3 * Len(rows)))
    IN  as_stack([r \in 1..Len(rows) |->
                    XYZ_to_xyY_row(rows[r], Rows(resized, 3)[r])],
                 shape)

XYZ_to_xy_vectorise(XYZ, illuminant) ==
    LET shape == as_shape(XYZ)
        xyY == Rows(XYZ_to_xyY_vectorise(XYZ, illuminant), 3)
    IN  reshape_1d(Flatten([r \in 1..Len(xyY) |-> SubSeq(xyY[r], 1, 2)]),
                   auto_axis(shape))

\* Tristimulus values with none, one, two and three components equal to 0.
XYZTriplets ==
    {<<R(0, 1), R(0, 1), R(0, 1)>>, <<R(0, 1), R(1, 2), R(1, 4)>>,
     <<R(1, 4), R(1, 2), R(0, 1)>>, <<R(1, 4), R(1, 2), R(1, 4)>>,
     <<R(1, 2), R(0, 1), R(1, 2)>>, <<R(0, 1), R(0, 1), R(1, 1)>>}

IlluminantsXY == {<<R(1, 3), R(1, 4)>>, <<R(1, 4), R(1, 4)>>}

InitXYZ ==
    /\ data = <<>>
    /\ Untouched
    /\ op = "input"
    /\ res = Ret(None)
    /\ \E sh \in Shapes :
         \E rows \in [1..(Product(sh) \div 3) -> XYZTriplets] :
           \E illuminant \in IlluminantsXY :
             arg = [XYZ |-> Arr(sh, Flatten(rows)), illuminant |-> xyArr(illuminant)]

Call_XYZ_to_xyY ==
    /\ op = "input"
    /\ op' = "XYZ_to_xyY"
    /\ res' = XYZ_to_xyY_vectorise(arg.XYZ, arg.illuminant)
    /\ UNCHANGED <<data, arg, cmfsVars, munsellVars>>

Call_XYZ_to_xy ==
    /\ op = "input"
    /\ op' = "XYZ_to_xy"
    /\ res' = XYZ_to_xy_vectorise(arg.XYZ, arg.illuminant)
    /\ UNCHANGED <<data, arg, cmfsVars, munsellVars>>

NextXYZ == Call_XYZ_to_xyY \/ Call_XYZ_to_xy

SpecXYZ == InitXYZ /\ [][NextXYZ]_vars

\* C28: XYZ_to_xyY returns (illuminant x, illuminant y, Y) only for
\* X = Y = Z = 0 and (X / (X + Y + Z), Y / (X + Y + Z), Y) for every XYZ with
\* a non-zero component, one or two zero components included; XYZ_to_xy
\* returns the first two of these.
C28_DegenerateOnly ==
    op \in {"XYZ_to_xyY", "XYZ_to_xy"} =>
        LET k == IF op = "XYZ_to_xyY" THEN 3 ELSE 2
        IN  \A r \in 1..NumRows(arg.XYZ, 3) :
              LET XYZ == RowOf(arg.XYZ, r, 3)
                  sum == RAdd(RAdd(XYZ[1], XYZ[2]), XYZ[3])
                  expected == IF XYZ = <<Zero, Zero, Zero>>
                              THEN arg.illuminant.flat \o <<XYZ[2]>>
                              ELSE <<RDiv(XYZ[1], sum), RDiv(XYZ[2], sum), XYZ[2]>>
              IN  RowOf(res, r, k) = SubSeq(expected, 1, k)


(***************************************************************************)
(* colour.models.deprecated: RGB_to_HSL and HSL_to_RGB (SpecHSL).          *)
(***************************************************************************)
\* a < b of two floats; False when either is nan.
RLess(a, b) == ~IsNaN(a) /\ ~IsNaN(b) /\ a[1] * b[2] < b[1] * a[2]

RMax(a, b) == IF RLess(a, b) THEN b ELSE a

RMin(a, b) == IF RLess(b, a) THEN b ELSE a

\* RGB_to_HSL_vectorise for one row of the (-1, 3) view.
RGB_to_HSL_row(RGB) ==
    LET minimum == RMin(RMin(RGB[1], RGB[2]), RGB[3])
        maximum == RMax(RMax(RGB[1], RGB[2]), RGB[3])
        delta == RSub(maximum, minimum)
        L == RDiv(RAdd(maximum, minimum), R(2, 1))
        S0 == IF RLess(L, R(1, 2))
              THEN RDiv(delta, RAdd(maximum, minimum))
              ELSE RDiv(delta, RSub(RSub(R(2, 1), maximum), minimum))
        S == IF REq(delta, Zero) THEN Zero ELSE S0
        delta_R == RDiv(RAdd(RDiv(RSub(maximum, RGB[1]), R(6, 1)), RDiv(delta, R(2, 1))), delta)
        delta_G == RDiv(RAdd(RDiv(RSub(maximum, RGB[2]), R(6, 1)), RDiv(delta, R(2, 1))), delta)
        delta_B == RDiv(RAdd(RDiv(RSub(maximum, RGB[3]), R(6, 1)), RDiv(delta, R(2, 1))), delta)
        H0 == RSub(delta_B, delta_G)
        H1 == IF REq(RGB[2], maximum) THEN RSub(RAdd(R(1, 3), delta_R), delta_B) ELSE H0
        H2 == IF REq(RGB[3], maximum) THEN RSub(RAdd(R(2, 3), delta_G), delta_R) ELSE H1
        H3 == IF RLess(H2, Zero) THEN RAdd(H2, One) ELSE H2
        H4 == IF RLess(One, H3) THEN RSub(H3, One) ELSE H3
        H == IF REq(delta, Zero) THEN Zero ELSE H4
    IN  <<H, S, L>>

RGB_to_HSL_vectorise(RGB) ==
    LET shape == as_shape(RGB)
        rows == Rows(RGB, 3)
    IN  as_stack([r \in 1..Len(rows) |-> RGB_to_HSL_row(rows[r])], shape)

\* vH[vH < 0] += 1; vH[vH > 1] -= 1: done in place on the array passed.
H_to_RGB_hue(vH) ==
    LET up == IF RLess(vH, Zero) THEN RAdd(vH, One) ELSE vH
    IN  IF RLess(One, up) THEN RSub(up, One) ELSE up

\* H_to_RGB(vi, vj, vH): each np.where fills the elements still nan.
H_to_RGB(vi, vj, vH) ==
    LET h == H_to_RGB_hue(vH)
        v1 == IF RLess(RMul(R(6, 1), h), One)
              THEN RAdd(vi, RMul(RMul(RSub(vj, vi), R(6, 1)), h))
              ELSE NaN
        v2 == IF RLess(RMul(R(2, 1), h), One) /\ IsNaN(v1) THEN vj ELSE v1
        v3 == IF RLess(RMul(R(3, 1), h), R(2, 1)) /\ IsNaN(v2)
              THEN RAdd(vi, RMul(RMul(RSub(vj, vi), RSub(R(2, 3), h)), R(6, 1)))
              ELSE v2
    IN  IF IsNaN(v3) THEN vi ELSE v3

\* HSL_to_RGB_vectorise for one row; the call for G normalises H in place
\* before H - (1 / 3) is formed for B.
HSL_to_RGB_row(HSL) ==
    LET H == HSL[1]
        S == HSL[2]
        L == HSL[3]
        j == IF RLess(L, R(1, 2)) THEN RMul(L, RAdd(One, S))
             ELSE RSub(RAdd(L, S), RMul(S, L))
        i == RSub(RMul(R(2, 1), L), j)
        Red == H_to_RGB(i, j, RAdd(H, R(1, 3)))
        Green == H_to_RGB(i, j, H)
        Blue == H_to_RGB(i, j, RSub(H_to_RGB_hue(H), R(1, 3)))
    IN  IF REq(S, One) THEN <<L, L, L>> ELSE <<Red, Green, Blue>>

HSL_to_RGB_vectorise(HSL) ==
    LET shape == as_shape(HSL)
        rows == Rows(HSL, 3)
    IN  as_stack([r \in 1..Len(rows) |-> HSL_to_RGB_row(rows[r])], shape)

\* RGB components in [0, 1].
Channels == {R(0, 1), R(1, 4), R(1, 2), R(3, 4), R(1, 1)}

\* Colours of batches: a primary, a grey, two mixed colours.
BatchRGBs ==
    {<<R(1, 1), R(0, 1), R(0, 1)>>, <<R(1, 2), R(1, 2), R(1, 2)>>,
     <<R(1, 4), R(1, 2), R(3, 4)>>, <<R(3, 4), R(1, 4), R(1, 4)>>}

InitHSL ==
    /\ data = <<>>
    /\ Untouched
    /\ op = "input"
    /\ res = Ret(None)
    /\ \/ \E r \in Channels : \E g \in Channels : \E b \in Channels :
            arg = [RGB |-> Arr(<<3>>, <<r, g, b>>)]
       \/ \E sh \in Shapes \ {<<3>>} :
            \E rows \in [1..(Product(sh) \div 3) -> BatchRGBs] :
              arg = [RGB |-> Arr(sh, Flatten(rows))]

Call_RGB_to_HSL ==
    /\ op = "input"
    /\ op' = "RGB_to_HSL"
    /\ res' = RGB_to_HSL_vectorise(arg.RGB)
    /\ UNCHANGED <<data, arg, cmfsVars, munsellVars>>

\* The HSL just obtained is converted back.
Call_HSL_to_RGB ==
    /\ op = "RGB_to_HSL"
    /\ op' = "HSL_to_RGB"
    /\ res' = HSL_to_RGB_vectorise(res)
    /\ UNCHANGED <<data, arg, cmfsVars, munsellVars>>

NextHSL == Call_RGB_to_HSL \/ Call_HSL_to_RGB

SpecHSL == InitHSL /\ [][NextHSL]_vars

InUnit(x) == IsFinite(x) /\ ~RLess(x, Zero) /\ ~RLess(One, x)

\* The claims about RGB_to_HSL alone.
HSL_InRange ==
    op = "RGB_to_HSL" =>
        /\ res.shape = arg.RGB.shape
        /\ \A r \in 1..NumRows(arg.RGB, 3) :
             LET RGB == RowOf(arg.RGB, r, 3)
                 HSL == RowOf(res, r, 3)
                 maximum == RMax(RMax(RGB[1], RGB[2]), RGB[3])
                 minimum == RMin(RMin(RGB[1], RGB[2]), RGB[3])
             IN  /\ InUnit(HSL[1])
                 /\ InUnit(HSL[2])
                 /\ HSL[3] = RDiv(RAdd(maximum, minimum), R(2, 1))
                 /\ (RGB[1] = RGB[2] /\ RGB[2] = RGB[3]) => (HSL[1] = Zero /\ HSL[2] = Zero)

\* C29: HSL_to_RGB(RGB_to_HSL(RGB)) = RGB for every RGB with components in
\* [0, 1], achromatic colours (H = 0, S = 0, no nan) and fully saturated
\* colours included; RGB_to_HSL yields H and S in [0, 1] and
\* L = (max + min) / 2.
C29_RoundTrip ==
    /\ HSL_InRange
    /\ op = "HSL_to_RGB" => res = arg.RGB


(***************************************************************************)
(* colour.plotting: module initialisation and the API changes              *)
(* (SpecPlotting).  A dotted name is the sequence of its components.       *)
(***************************************************************************)
RENAMED_v0_3_11 ==
    <<
      <<<<"colour", "plotting", "CIE_1931_chromaticity_diagram_plot">>,
        <<"colour", "plotting", "chromaticity_diagram_plot_CIE1931">>>>,
      <<<<"colour", "plotting", "CIE_1960_UCS_chromaticity_diagram_plot">>,
        <<"colour", "plotting", "chromaticity_diagram_plot_CIE1960UCS">>>>,
      <<<<"colour", "plotting", "CIE_1976_UCS_chromaticity_diagram_plot">>,
        <<"colour", "plotting", "chromaticity_diagram_plot_CIE1976UCS">>>>,
      <<<<"colour", "plotting", "spds_CIE_1931_chromaticity_diagram_plot">>,
        <<"colour", "plotting", "spds_chromaticity_diagram_plot_CIE1931">>>>,
      <<<<"colour", "plotting", "spds_CIE_1960_UCS_chromaticity_diagram_plot">>,
        <<"colour", "plotting", "spds_chromaticity_diagram_plot_CIE1960UCS">>>>,
      <<<<"colour", "plotting", "spds_CIE_1976_UCS_chromaticity_diagram_plot">>,
        <<"colour", "plotting", "spds_chromaticity_diagram_plot_CIE1976UCS">>>>,
      <<<<"colour", "plotting", "RGB_colourspaces_CIE_1931_chromaticity_diagram_plot">>,
        <<"colour", "plotting", "RGB_colourspaces_chromaticity_diagram_plot_CIE1931">>>>,
      <<<<"colour", "plotting", "RGB_colourspaces_CIE_1960_UCS_chromaticity_diagram_plot">>,
        <<"colour", "plotting", "RGB_colourspaces_chromaticity_diagram_plot_CIE1960UCS">>>>,
      <<<<"colour", "plotting", "RGB_colourspaces_CIE_1976_UCS_chromaticity_diagram_plot">>,
        <<"colour", "plotting", "RGB_colourspaces_chromaticity_diagram_plot_CIE1976UCS">>>>,
      <<<<"colour", "plotting", "RGB_chromaticity_coordinates_CIE_1931_chromaticity_diagram_plot">>,
        <<"colour", "plotting", "RGB_chromaticity_coordinates_chromaticity_diagram_plot_CIE1931">>>>,
      <<<<"colour", "plotting", "RGB_chromaticity_coordinates_CIE_1960_UCS_chromaticity_diagram_plot">>,
        <<"colour", "plotting", "RGB_chromaticity_coordinates_chromaticity_diagram_plot_CIE1960UCS">>>>,
      <<<<"colour", "plotting", "RGB_chromaticity_coordinates_CIE_1976_UCS_chromaticity_diagram_plot">>,
        <<"colour", "plotting", "RGB_chromaticity_coordinates_chromaticity_diagram_plot_CIE1976UCS">>>>,
      <<<<"colour", "plotting", "planckian_locus_CIE_1931_chromaticity_diagram_plot">>,
        <<"colour", "plotting", "planckian_locus_chromaticity_diagram_plot_CIE1931">>>>,
      <<<<"colour", "plotting", "planckian_locus_CIE_1960_UCS_chromaticity_diagram_plot">>,
        <<"colour", "plotting", "planckian_locus_chromaticity_diagram_plot_CIE1960UCS">>>>
    >>

RENAMED_v0_3_12 ==
    <<
      <<<<"colour", "plotting", "colour_plotting_defaults">>,
        <<"colour", "plotting", "colour_style">>>>,
      <<<<"colour", "plotting", "equal_axes3d">>,
        <<"colour", "plotting", "uniform_axes3d">>>>,
      <<<<"colour", "plotting", "get_RGB_colourspace">>,
        <<"colour", "plotting", "filter_RGB_colourspaces">>>>,
      <<<<"colour", "plotting", "get_cmfs">>,
        <<"colour", "plotting", "filter_cmfs">>>>,
      <<<<"colour", "plotting", "get_illuminant">>,
        <<"colour", "plotting", "filter_illuminants">>>>,
      <<<<"colour", "plotting", "single_illuminant_relative_spd_plot">>,
        <<"colour", "plotting", "single_illuminant_spd_plot">>>>,
      <<<<"colour", "plotting", "multi_illuminants_relative_spd_plot">>,
        <<"colour", "plotting", "multi_illuminant_spd_plot">>>>,
      <<<<"colour", "plotting", "multi_colour_swatches_plot">>,
        <<"colour", "plotting", "multi_colour_swatch_plot">>>>,
      <<<<"colour", "plotting", "colour_checker_plot">>,
        <<"colour", "plotting", "single_colour_checker_plot">>>>
    >>

\* Renamed(name, access) of colour.utilities.deprecation
Renamed(name, access) == [name |-> name, access |-> access]

\* name.split('.')[-1]
LastComponent(name) == name[Len(name)]

\* The body of _setup_api_changes after i - 1 iterations of its loop over
\* `renamed`: iteration i stores Renamed(name, access) under the last
\* component of name.
_setup_api_changes_iteration(API_CHANGES, renamed, i) ==
    LET name == renamed[i][1]
        access == renamed[i][2]
    IN  DictSet(API_CHANGES, LastComponent(name), Renamed(name, access))

\* dict.pop(key) of a key that is present
DictPop(d, key) == [k \in DOMAIN d \ {key} |-> d[k]]

\* Names the module has bound when API_CHANGES is defined: the imports the
\* initialisation uses, the class and the objects the renamed entries lead to.
ImportedNames ==
    {"sys", "ModuleAPI", "Renamed", "is_documentation_building", "plotting"}
    \cup {LastComponent(RENAMED_v0_3_11[i][2]) : i \in DOMAIN RENAMED_v0_3_11}
    \cup {LastComponent(RENAMED_v0_3_12[i][2]) : i \in DOMAIN RENAMED_v0_3_12}

\* Attributes asked of colour.plotting after the import.
Attributes ==
    {LastComponent(RENAMED_v0_3_11[i][1]) : i \in DOMAIN RENAMED_v0_3_11}
    \cup {LastComponent(RENAMED_v0_3_12[i][1]) : i \in DOMAIN RENAMED_v0_3_12}
    \cup {"chromaticity_diagram_plot_CIE1931", "colour_style", "filter_cmfs",
          "API_CHANGES", "_setup_api_changes", "ModuleAPI", "sys", "spam"}

\* ModuleAPI.__getattr__(attribute) over the changes and the module handed
\* to the wrapper: a renamed attribute warns and resolves its new name, any
\* other attribute is the module's.
ModuleAPI__getattr__(changes, namespace, attribute) ==
    IF attribute \in DOMAIN changes
    THEN Ret([attribute |-> LastComponent(changes[attribute].access),
              warning |-> changes[attribute]])
    ELSE IF attribute \in namespace THEN Ret([attribute |-> attribute])
    ELSE Raise("AttributeError")

\* plotting.__getattr__(attribute)
plotting__getattr__(changes, namespace, attribute) ==
    ModuleAPI__getattr__(changes, namespace, attribute)

\* The module body has run down to the first definition of API_CHANGES;
\* is_documentation_building() is the environment's.
InitPlotting ==
    /\ Untouched
    /\ op = "API_CHANGES"
    /\ arg = <<>>
    /\ res = Ret(None)
    /\ \E building \in BOOLEAN :
         data = [API_CHANGES |-> [k \in {"Renamed"} |-> RENAMED_v0_3_11],
                 namespace |-> ImportedNames \cup {"API_CHANGES"},
                 is_documentation_building |-> building,
                 sys_modules |-> "module",
                 i |-> 0]

\* API_CHANGES['Renamed'] = API_CHANGES['Renamed'] + [...]
ExtendRenamed ==
    /\ op = "API_CHANGES"
    /\ op' = "def _setup_api_changes"
    /\ data' = [data EXCEPT !.API_CHANGES =
                   DictSet(@, "Renamed", @["Renamed"] \o RENAMED_v0_3_12)]
    /\ UNCHANGED <<arg, res, cmfsVars, munsellVars>>

\* def _setup_api_changes(): binds the name, runs nothing.
Def_setup_api_changes ==
    /\ op = "def _setup_api_changes"
    /\ op' = "if not is_documentation_building()"
    /\ data' = [data EXCEPT !.namespace = @ \cup {"_setup_api_changes"}]
    /\ UNCHANGED <<arg, res, cmfsVars, munsellVars>>

IfNotDocumentationBuilding ==
    /\ op = "if not is_documentation_building()"
    /\ op' = IF data.is_documentation_building THEN "imported" ELSE "del ModuleAPI"
    /\ UNCHANGED <<data, arg, res, cmfsVars, munsellVars>>

Del(name, next) ==
    /\ op = "del " \o name
    /\ op' = next
    /\ data' = [data EXCEPT !.namespace = @ \ {name}]
    /\ UNCHANGED <<arg, res, cmfsVars, munsellVars>>

DelModuleAPI == Del("ModuleAPI", "del Renamed")

DelRenamed == Del("Renamed", "del is_documentation_building")

DelIsDocumentationBuilding == Del("is_documentation_building", "del _setup_api_changes")

DelSetupApiChanges == Del("_setup_api_changes", "sys.modules['colour.plotting'] =")

\* sys.modules['colour.plotting'] = plotting(sys.modules['colour.plotting'],
\*                                           API_CHANGES)
ReplaceModule ==
    /\ op = "sys.modules['colour.plotting'] ="
    /\ op' = "del sys"
    /\ data' = [data EXCEPT !.sys_modules = "plotting"]
    /\ UNCHANGED <<arg, res, cmfsVars, munsellVars>>

DelSys == Del("sys", "imported")

\* getattr(colour.plotting, attribute) once the import is over.
GetAttr ==
    /\ op = "imported"
    /\ \E attribute \in Attributes :
         /\ arg' = <<attribute>>
         /\ res' = IF data.sys_modules = "plotting"
                   THEN plotting__getattr__(data.API_CHANGES, data.namespace, attribute)
                   ELSE IF attribute \in data.namespace
                        THEN Ret([attribute |-> attribute])
                        ELSE Raise("AttributeError")
    /\ op' = "getattr"
    /\ UNCHANGED <<data, cmfsVars, munsellVars>>

\* colour.plotting._setup_api_changes() called by a user of the module,
\* possible while the name is still an attribute of it.
Call_setup_api_changes ==
    /\ op = "imported"
    /\ data.sys_modules = "module"
    /\ "_setup_api_changes" \in data.namespace
    /\ arg' = <<>>
    /\ IF "Renamed" \in DOMAIN data.API_CHANGES
       THEN /\ op' = "_setup_api_changes: for"
            /\ res' = Ret(data.API_CHANGES["Renamed"])
            /\ data' = [data EXCEPT !.i = 1]
       ELSE /\ op' = "_setup_api_changes"
            /\ res' = Raise("KeyError")
            /\ UNCHANGED data
    /\ UNCHANGED <<cmfsVars, munsellVars>>

\* One iteration of the loop; res holds the list being iterated.
ForRenamed ==
    /\ op = "_setup_api_changes: for"
    /\ data.i <= Len(res.val)
    /\ data' = [data EXCEPT
                  !.API_CHANGES = _setup_api_changes_iteration(@, res.val, data.i),
                  !.i = @ + 1]
    /\ UNCHANGED <<op, arg, res, cmfsVars, munsellVars>>

\* API_CHANGES.pop('Renamed')
PopRenamed ==
    /\ op = "_setup_api_changes: for"
    /\ data.i > Len(res.val)
    /\ op' = "_setup_api_changes"
    /\ data' = [data EXCEPT !.API_CHANGES = DictPop(@, "Renamed"), !.i = 0]
    /\ res' = Ret(None)
    /\ UNCHANGED <<arg, cmfsVars, munsellVars>>

ReturnPlotting ==
    /\ op \in {"getattr", "_setup_api_changes"}
    /\ op' = "imported"
    /\ UNCHANGED <<data, arg, res, cmfsVars, munsellVars>>

NextPlotting ==
    \/ ExtendRenamed
    \/ Def_setup_api_changes
    \/ IfNotDocumentationBuilding
    \/ DelModuleAPI
    \/ DelRenamed
    \/ DelIsDocumentationBuilding
    \/ DelSetupApiChanges
    \/ ReplaceModule
    \/ DelSys
    \/ GetAttr
    \/ Call_setup_api_changes
    \/ ForRenamed
    \/ PopRenamed
    \/ ReturnPlotting

SpecPlotting == InitPlotting /\ [][NextPlotting]_vars

\* C26: outside a documentation build, once colour.plotting has been replaced
\* by the plotting wrapper the API_CHANGES handed to it has no 'Renamed' key
\* and maps the last component of every old name of v0.3.11 and v0.3.12 to
\* Renamed(old, new).
C26_ApiChangesSetUp ==
    (~data.is_documentation_building /\ data.sys_modules = "plotting") =>
        /\ "Renamed" \notin DOMAIN data.API_CHANGES
        /\ \A renamed \in {RENAMED_v0_3_11[i] : i \in DOMAIN RENAMED_v0_3_11}
                          \cup {RENAMED_v0_3_12[i] : i \in DOMAIN RENAMED_v0_3_12} :
             /\ LastComponent(renamed[1]) \in DOMAIN data.API_CHANGES
             /\ data.API_CHANGES[LastComponent(renamed[1])] = Renamed(renamed[1], renamed[2])


(***************************************************************************)
(* colour.models.aces_rgb_idt: spectral_to_aces_relative_exposure_values   *)
(* (SpecACES).  data is the store of the SPD objects that outlive a call:  *)
(* the caller's spd and illuminant, the registry's D60 and the three       *)
(* sensitivities of ACES_RICD; each object is a mapping wavelength ->      *)
(* value.                                                                  *)
(***************************************************************************)
FLARE_PERCENTAGE == R(5, 1000)

S_FLARE_FACTOR == RDiv(R(18, 100), RAdd(R(18, 100), FLARE_PERCENTAGE))

\* SpectralPowerDistribution.shape: start, end and the observed steps.
SpectralPowerDistribution_shape(d) ==
    LET ws == wavelengths(d)
    IN  [start |-> ws[1], end |-> ws[Len(ws)],
         steps |-> {ws[i + 1] - ws[i] : i \in 1..(Len(ws) - 1)}]

\* SpectralShape.range() of a shape of one step
SpectralShape_range(shape) ==
    LET step == SetMin(shape.steps)
    IN  {shape.start + k * step : k \in 0..((shape.end - shape.start) \div step)}

\* The interpolated / extrapolated value of d at w: the sample at a sample,
\* on the line between the neighbouring samples between samples, the nearest
\* sample outside the samples.
SpectralPowerDistribution_evaluate(d, w) ==
    LET below == {k \in DOMAIN d : k <= w}
        above == {k \in DOMAIN d : k >= w}
        lo == IF below = {} THEN SetMin(above) ELSE SetMax(below)
        hi == IF above = {} THEN SetMax(below) ELSE SetMin(above)
    IN  IF lo = hi THEN d[lo]
        ELSE RAdd(d[lo], RMul(RSub(d[hi], d[lo]), R(w - lo, hi - lo)))

\* SpectralPowerDistribution.clone(): a new object `copy` with the same
\* mapping.
SpectralPowerDistribution_clone(store, self, copy) == DictSet(store, copy, store[self])

\* SpectralPowerDistribution.align(shape): a new object `aligned` whose
\* domain is shape.range(), with the values of self evaluated there; self is
\* left as it is.
SpectralPowerDistribution_align(store, self, shape, aligned) ==
    DictSet(store, aligned,
            [w \in SpectralShape_range(shape) |->
                SpectralPowerDistribution_evaluate(store[self], w)])

RECURSIVE RSum(_)
RSum(s) == IF s = <<>> THEN Zero ELSE RAdd(Head(s), RSum(Tail(s)))

\* x * y of two arrays of one length
Times(x, y) == [i \in 1..Len(x) |-> RMul(x[i], y[i])]

\* get_k = lambda x, y: 1 / np.sum(x * y)
get_k(x, y) == RDiv(One, RSum(Times(x, y)))

\* Mutant: the flare percentage is added but the result is not scaled.
aces_relative_exposure_values_unscaled(spd, illuminant, r_bar, g_bar, b_bar) ==
    LET E_r == RMul(get_k(illuminant, r_bar), RSum(Times(Times(illuminant, spd), r_bar)))
        E_g == RMul(get_k(illuminant, g_bar), RSum(Times(Times(illuminant, spd), g_bar)))
        E_b == RMul(get_k(illuminant, b_bar), RSum(Times(Times(illuminant, spd), b_bar)))
    IN  [c \in 1..3 |-> RAdd(<<E_r, E_g, E_b>>[c], FLARE_PERCENTAGE)]

\* E_rgb of the value arrays: k * sum(illuminant * spd * sensitivity) per
\* channel, E_rgb += FLARE_PERCENTAGE, E_rgb *= S_FLARE_FACTOR.
aces_relative_exposure_values(spd, illuminant, r_bar, g_bar, b_bar) ==
    LET E_r == RMul(get_k(illuminant, r_bar), RSum(Times(Times(illuminant, spd), r_bar)))
        E_g == RMul(get_k(illuminant, g_bar), RSum(Times(Times(illuminant, spd), g_bar)))
        E_b == RMul(get_k(illuminant, b_bar), RSum(Times(Times(illuminant, spd), b_bar)))
    IN  [c \in 1..3 |->
            RMul(RAdd(<<E_r, E_g, E_b>>[c], FLARE_PERCENTAGE), S_FLARE_FACTOR)]

\* Mutant: the aligned values are written to the objects given.
spectral_to_aces_relative_exposure_values_in_place(store, spd, illuminant) ==
    LET shape == SpectralPowerDistribution_shape(store["r_bar"])
        s1 == IF SpectralPowerDistribution_shape(store[spd]) # shape
              THEN SpectralPowerDistribution_align(store, spd, shape, spd)
              ELSE store
        s2 == IF SpectralPowerDistribution_shape(s1[illuminant]) # shape
              THEN SpectralPowerDistribution_align(s1, illuminant, shape, illuminant)
              ELSE s1
    IN  [store |-> s2,
         val |-> aces_relative_exposure_values(
                     values(s2[spd]), values(s2[illuminant]),
                     values(s2["r_bar"]), values(s2["g_bar"]), values(s2["b_bar"]))]

\* spectral_to_aces_relative_exposure_values(spd, illuminant) over the store
\* of objects: the store when it returns, the clones it made included, and
\* E_rgb.
spectral_to_aces_relative_exposure_values(store, spd, illuminant) ==
    LET shape == SpectralPowerDistribution_shape(store["r_bar"])
        spd_differs == SpectralPowerDistribution_shape(store[spd]) # shape
        s1 == IF spd_differs
              THEN SpectralPowerDistribution_align(
                       SpectralPowerDistribution_clone(store, spd, "spd.clone()"),
                       "spd.clone()", shape, "spd.clone().align(shape)")
              ELSE store
        spd_1 == IF spd_differs THEN "spd.clone().align(shape)" ELSE spd
        illuminant_differs == SpectralPowerDistribution_shape(s1[illuminant]) # shape
        s2 == IF illuminant_differs
              THEN SpectralPowerDistribution_align(
                       SpectralPowerDistribution_clone(s1, illuminant, "illuminant.clone()"),
                       "illuminant.clone()", shape, "illuminant.clone().align(shape)")
              ELSE s1
        illuminant_1 == IF illuminant_differs THEN "illuminant.clone().align(shape)" ELSE illuminant
    IN  [store |-> s2,
         val |-> aces_relative_exposure_values(
                     values(s2[spd_1]), values(s2[illuminant_1]),
                     values(s2["r_bar"]), values(s2["g_bar"]), values(s2["b_bar"]))]

\* ACES_RICD: three sensitivities on one shape.
ACES_RICD ==
    [r_bar |-> (510 :> R(0, 1) @@ 520 :> R(1, 2) @@ 530 :> R(1, 1)),
     g_bar |-> (510 :> R(1, 1) @@ 520 :> R(1, 1) @@ 530 :> R(1, 2)),
     b_bar |-> (510 :> R(1, 2) @@ 520 :> R(1, 4) @@ 530 :> R(0, 1))]

\* ILLUMINANTS_RELATIVE_SPDS.get('D60'), on a shape of its own.
D60 == (500 :> R(1, 1) @@ 520 :> R(2, 1) @@ 540 :> R(1, 1))

\* Wavelengths of the caller's SPDs: the shape of ACES_RICD and others.
ACESDomains == {{510, 520, 530}, {510, 530}, {500, 520, 540}}

IlluminantDomains == {{510, 520, 530}, {500, 540}}

Reflectances == {R(0, 1), R(18, 100), R(1, 1)}

Powers == {R(0, 1), R(2, 1)}

InitACES ==
    /\ op = "idle"
    /\ arg = <<>>
    /\ res = Ret(None)
    /\ interpolators = NoInterpolators
    /\ latest = <<>>
    /\ calls = 0
    /\ _MUNSELL_VALUE_ASTM_D1535_08_INTERPOLATOR_CACHE = None
    /\ constructed = 0
    /\ \E ds \in ACESDomains : \E spd \in [ds -> Reflectances] :
         \E di \in IlluminantDomains : \E illuminant \in [di -> Powers] :
           data = [k \in {"spd", "illuminant", "D60", "r_bar", "g_bar", "b_bar"} |->
                     CASE k = "spd" -> spd
                       [] k = "illuminant" -> illuminant
                       [] k = "D60" -> D60
                       [] OTHER -> ACES_RICD[k]]

\* A call with the caller's spd and either the caller's illuminant or the
\* default one; the objects the call created are dropped when it returns.
\* latest records what each argument list returned last.
Call_spectral_to_aces_relative_exposure_values ==
    /\ op = "idle"
    /\ calls < MaxCalls
    /\ \E illuminant \in {"illuminant", "D60"} :
         LET r == spectral_to_aces_relative_exposure_values(data, "spd", illuminant)
         IN  /\ arg' = <<"spd", illuminant>>
             /\ res' = Ret(r.val)
             /\ data' = [k \in DOMAIN data |-> r.store[k]]
             /\ latest' = DictSet(latest, <<"spd", illuminant>>, r.val)
    /\ op' = "spectral_to_aces_relative_exposure_values"
    /\ calls' = calls + 1
    /\ UNCHANGED <<interpolators, munsellVars>>

ReturnACES ==
    /\ op = "spectral_to_aces_relative_exposure_values"
    /\ op' = "idle"
    /\ UNCHANGED <<data, arg, res, cmfsVars, munsellVars>>

NextACES == Call_spectral_to_aces_relative_exposure_values \/ ReturnACES

SpecACES == InitACES /\ [][NextACES]_vars

\* C24: no call changes the wavelengths or values of the caller's spd and
\* illuminant, of the registry's D60 or of the ACES_RICD sensitivities, and
\* a call returns what the last call with the same arguments returned.
C24_NoMutation ==
    [][/\ data' = data
       /\ (op' = "spectral_to_aces_relative_exposure_values" /\ arg' \in DOMAIN latest)
             => res'.val = latest[arg']]_vars

C24_Witness ==
    /\ op = "spectral_to_aces_relative_exposure_values"
    /\ calls = 3
    /\ DOMAIN latest = {<<"spd", "D60">>}
    /\ DOMAIN data["spd"] = {500, 520, 540}
    /\ data["spd"][500] # data["spd"][520]

\* The values the function works with for the object d: those of d when its
\* shape is that of ACES_RICD, those of d evaluated on that shape otherwise.
OnRICDShape(d) ==
    [i \in 1..3 |-> SpectralPowerDistribution_evaluate(d, wavelengths(ACES_RICD.r_bar)[i])]

\* The weighted sums sum(illuminant * sensitivity) are positive.
PositiveWeightedSums(illuminant) ==
    \A k \in {"r_bar", "g_bar", "b_bar"} :
        RLess(Zero, RSum(Times(OnRICDShape(illuminant), values(ACES_RICD[k]))))

C25_WitnessWhite ==
    /\ op = "spectral_to_aces_relative_exposure_values"
    /\ arg = <<"spd", "D60">>
    /\ \A w \in DOMAIN data["spd"] : REq(data["spd"][w], One)
    /\ \A c \in 1..3 : REq(res.val[c], R(1809, 1850))


(***************************************************************************)
(* colour.models.rgb.conversion_functions.pivoted_log (SpecPivotedLog).    *)
(* A number is kept exactly as a + b * log10(q) with rationals a, b, q     *)
(* (b = 0, q = 1 for a rational number); a power of ten that has no such   *)
(* form is kept as the expression it is.                                   *)
(***************************************************************************)
MaxDecades == 3

Num(r) == [a |-> r, b |-> Zero, q |-> One]

Lin(a, b, q) == IF REq(b, Zero) THEN Num(a) ELSE [a |-> a, b |-> b, q |-> q]

IsLin(t) == DOMAIN t = {"a", "b", "q"}

\* t + r, t * r and t / r for a number t and a rational r
LinAdd(t, r) == IF IsLin(t) THEN Lin(RAdd(t.a, r), t.b, t.q) ELSE [sum |-> <<t, r>>]

LinMul(t, r) ==
    IF IsLin(t) THEN Lin(RMul(t.a, r), RMul(t.b, r), t.q)
    ELSE IF DOMAIN t = {"power", "times"} THEN [power |-> t.power, times |-> RMul(t.times, r)]
    ELSE [product |-> <<t, r>>]

LinDiv(t, r) ==
    IF IsLin(t) THEN Lin(RDiv(t.a, r), RDiv(t.b, r), t.q)
    ELSE IF DOMAIN t = {"power", "times"} THEN [power |-> t.power, times |-> RDiv(t.times, r)]
    ELSE [quotient |-> <<t, r>>]

RECURSIVE TenTo(_)
TenTo(k) == IF k = 0 THEN One ELSE IF k > 0 THEN RMul(R(10, 1), TenTo(k - 1)) ELSE RDiv(TenTo(k + 1), R(10, 1))

\* np.log10: -inf at 0, nan below 0, k at 10^k
np_log10(t) ==
    IF ~(IsLin(t) /\ REq(t.b, Zero)) THEN [log10 |-> t]
    ELSE IF IsNaN(t.a) \/ RLess(t.a, Zero) THEN Num(NaN)
    ELSE IF REq(t.a, Zero) THEN Num(<<-1, 0>>)
    ELSE IF IsInf(t.a) THEN Num(t.a)
    ELSE IF \E k \in (-MaxDecades)..MaxDecades : REq(t.a, TenTo(k))
         THEN Num(R(CHOOSE k \in (-MaxDecades)..MaxDecades : REq(t.a, TenTo(k)), 1))
    ELSE Lin(Zero, One, t.a)

\* 10 ** t: 10^a * q for t = a + log10(q) with an integer a
TenToThe(t) ==
    IF ~IsLin(t) THEN [power |-> t, times |-> One]
    ELSE IF IsNaN(t.a) THEN Num(NaN)
    ELSE IF IsInf(t.a) THEN Num(IF t.a[1] > 0 THEN t.a ELSE Zero)
    ELSE IF t.a[2] = 1 /\ Abs(t.a[1]) <= MaxDecades /\ (REq(t.b, Zero) \/ REq(t.b, One))
         THEN Num(RMul(TenTo(t.a[1]), t.q))
    ELSE [power |-> t, times |-> One]

\* Mutant: the power of ten is not multiplied by linear_reference.
log_decoding_PivotedLog_unscaled(value, log_reference, linear_reference, negative_gamma, density_per_code_value) ==
    TenToThe(LinMul(LinAdd(LinMul(value, R(1023, 1)), RNeg(log_reference)),
                    RDiv(density_per_code_value, negative_gamma)))

log_encoding_PivotedLog(value, log_reference, linear_reference, negative_gamma, density_per_code_value) ==
    LinDiv(LinAdd(LinDiv(np_log10(LinDiv(value, linear_reference)),
                         RDiv(density_per_code_value, negative_gamma)),
                  log_reference),
           R(1023, 1))

log_decoding_PivotedLog(value, log_reference, linear_reference, negative_gamma, density_per_code_value) ==
    LinMul(TenToThe(LinMul(LinAdd(LinMul(value, R(1023, 1)), RNeg(log_reference)),
                           RDiv(density_per_code_value, negative_gamma))),
           linear_reference)

\* as_array / as_numeric of a number are that number.
linear_to_pivoted_log_vectorise(value, log_reference, linear_reference, negative_gamma, density_per_code_value) ==
    LinDiv(LinAdd(LinDiv(np_log10(LinDiv(value, linear_reference)),
                         RDiv(density_per_code_value, negative_gamma)),
                  log_reference),
           R(1023, 1))

pivoted_log_to_linear_vectorise(value, log_reference, linear_reference, negative_gamma, density_per_code_value) ==
    LinMul(TenToThe(LinMul(LinAdd(LinMul(value, R(1023, 1)), RNeg(log_reference)),
                           RDiv(density_per_code_value, negative_gamma))),
           linear_reference)

\* The defaults of the signatures and two other parameter sets.
PivotedLogDefaults ==
    [log_reference |-> R(445, 1), linear_reference |-> R(18, 100),
     negative_gamma |-> R(6, 10), density_per_code_value |-> R(2, 1000)]

PivotedLogParameters ==
    {PivotedLogDefaults,
     [log_reference |-> R(500, 1), linear_reference |-> R(1, 2),
      negative_gamma |-> R(1, 2), density_per_code_value |-> R(1, 1000)],
     [log_reference |-> R(445, 1), linear_reference |-> One,
      negative_gamma |-> R(6, 10), density_per_code_value |-> R(2, 1000)]}

PivotedLogValues ==
    {RMul(R(18, 100), TenTo(k)) : k \in (-MaxDecades)..MaxDecades}
        \cup {Zero, R(1, 20), R(1, 2), One, R(3, 1), R(445, 1023), R(500, 1023)}

InitPivotedLog ==
    /\ data = <<>>
    /\ Untouched
    /\ op = "input"
    /\ res = Ret(None)
    /\ \E p \in PivotedLogParameters : \E value \in PivotedLogValues :
         \E vectorise \in BOOLEAN :
           arg = [value |-> value, parameters |-> p, vectorise |-> vectorise]

Call_log_encoding_PivotedLog ==
    /\ op = "input"
    /\ op' = "log_encoding_PivotedLog"
    /\ LET p == arg.parameters
       IN  res' = IF arg.vectorise
                  THEN linear_to_pivoted_log_vectorise(Num(arg.value), p.log_reference,
                           p.linear_reference, p.negative_gamma, p.density_per_code_value)
                  ELSE log_encoding_PivotedLog(Num(arg.value), p.log_reference,
                           p.linear_reference, p.negative_gamma, p.density_per_code_value)
    /\ UNCHANGED <<data, arg, cmfsVars, munsellVars>>

\* Decoding of the value given (from "input") or of the value just encoded.
Call_log_decoding_PivotedLog ==
    /\ op \in {"input", "log_encoding_PivotedLog"}
    /\ op' = IF op = "input" THEN "log_decoding_PivotedLog"
             ELSE "log_decoding_PivotedLog(log_encoding_PivotedLog)"
    /\ LET p == arg.parameters
           value == IF op = "input" THEN Num(arg.value) ELSE res
       IN  res' = IF arg.vectorise
                  THEN pivoted_log_to_linear_vectorise(value, p.log_reference,
                           p.linear_reference, p.negative_gamma, p.density_per_code_value)
                  ELSE log_decoding_PivotedLog(value, p.log_reference,
                           p.linear_reference, p.negative_gamma, p.density_per_code_value)
    /\ UNCHANGED <<data, arg, cmfsVars, munsellVars>>

NextPivotedLog == Call_log_encoding_PivotedLog \/ Call_log_decoding_PivotedLog

SpecPivotedLog == InitPivotedLog /\ [][NextPivotedLog]_vars

\* C23: decoding(encoding(x)) = x for every x > 0 under one parameter set;
\* encoding(linear_reference) = log_reference / 1023 and
\* decoding(log_reference / 1023) = linear_reference; with the defaults
\* 0.18 is encoded as 445 / 1023 and 445 / 1023 decoded as 0.18.
C23_PivotedLogInverse ==
    LET p == arg.parameters
        pivot == RDiv(p.log_reference, R(1023, 1))
    IN  /\ (op = "log_decoding_PivotedLog(log_encoding_PivotedLog)" /\ RLess(Zero, arg.value))
              => res = Num(arg.value)
        /\ (op = "log_encoding_PivotedLog" /\ REq(arg.value, p.linear_reference))
              => res = Num(pivot)
        /\ (op = "log_decoding_PivotedLog" /\ REq(arg.value, pivot))
              => res = Num(p.linear_reference)
        /\ (op = "log_encoding_PivotedLog" /\ p = PivotedLogDefaults /\ arg.value = R(18, 100))
              => res = Num(R(445, 1023))

\* a value that is not a power of ten times linear_reference, encoded and
\* decoded with the defaults
C23_Witness ==
    /\ op = "log_decoding_PivotedLog(log_encoding_PivotedLog)"
    /\ arg.parameters = PivotedLogDefaults
    /\ arg.value = R(1, 2)
    /\ res = Num(R(1, 2))


(***************************************************************************)
(* colour.difference.delta_e: the hue of delta_E_CMC and of                *)
(* delta_E_CMC_vectorise and its two normalisation loops (SpecCMC), one    *)
(* step per test of a loop condition.  Floats are exact quotients; h_1 is  *)
(* held in res while the function runs.                                    *)
(***************************************************************************)
QNaN == [n |-> BigOf(0), d |-> BigOf(0)]

QInf == [n |-> BigOf(1), d |-> BigOf(0)]

QIsNaN(a) == a.d.mag = <<>> /\ a.n.mag = <<>>

QAbs(a) == [n |-> [neg |-> FALSE, mag |-> a.n.mag], d |-> a.d]

\* a < b of floats: False when either is nan
QLess(a, b) ==
    /\ ~QIsNaN(a)
    /\ ~QIsNaN(b)
    /\ BigSign(BigAdd(BigMul(a.n, b.d), BigNeg(BigMul(b.n, a.d)))) < 0

\* np.sqrt(s) < r for r > 0: nan < r is False
SqrtLess(root, r) == QLess(root.sqrt, QMul(r, r))

\* np.rad2deg(np.arctan2(b, a)) where its float is known: a multiple of 45
\* degrees on the axes and the diagonals, and (b / a) * (180 / pi) for a > 0
\* and |b / a| < 2^-27, where arctan(x) is x to the precision of a float
\* (180 / pi to 9 digits).
rad2deg_arctan2(b, a) ==
    LET zero == QOf(0)
    IN  IF QIsNaN(a) \/ QIsNaN(b) THEN QNaN
        ELSE IF QSame(b, zero) THEN (IF QLess(a, zero) THEN QOf(180) ELSE zero)
        ELSE IF QSame(a, zero) THEN (IF QLess(b, zero) THEN QOf(-90) ELSE QOf(90))
        ELSE IF QSame(QAbs(a), QAbs(b))
             THEN QOf((IF QLess(b, zero) THEN -1 ELSE 1) * (IF QLess(a, zero) THEN 135 ELSE 45))
        ELSE IF QLess(zero, a) /\ QLess(QMul(QAbs(b), QOf(134217728)), a)
             THEN QMul(QDiv(b, a), Dec(572957795, 7))
        ELSE [arctan2 |-> <<b, a>>]

\* Mutant: the hue of the angle whatever the chroma.
delta_E_CMC_h_1_any_chroma(a_1, b_1) == rad2deg_arctan2(b_1, a_1)

\* h_1 = np.where(c_1 < 0.000001, 0, np.rad2deg(np.arctan2(b_1, a_1))) of one
\* colour
delta_E_CMC_h_1(a_1, b_1) ==
    LET c_1 == sqrt(QAdd(QMul(a_1, a_1), QMul(b_1, b_1)))
    IN  IF SqrtLess(c_1, Dec(1, 6)) THEN QOf(0) ELSE rad2deg_arctan2(b_1, a_1)

\* h + 360 of floats for -180 <= h < 0: the sum is less than 360 and is
\* rounded to 360 when it is within half a unit in the last place (2^-45)
\* of it; any other sum is kept exact.
AddFloat360(h) ==
    IF QLess(h, QOf(0)) /\ ~QLess(QDiv(QOf(1), QMul(QOf(32768), QOf(1073741824))), QAbs(h))
    THEN QOf(360)
    ELSE QAdd(h, QOf(360))

\* (a, b) of the colours: the axes and diagonals of the lower half plane and
\* the positive a axis, no chroma, a chroma below 0.000001, an angle just
\* below 0, an infinite chroma and a nan.
CMCChromaticities ==
    {<<QOf(1), QOf(0)>>, <<QOf(-1), QOf(0)>>, <<QOf(-1), QOf(-1)>>, <<QOf(0), QOf(-1)>>,
     <<QOf(1), QOf(-1)>>, <<QOf(0), QOf(0)>>, <<Dec(-1, 7), QOf(0)>>, <<QOf(0), Dec(-1, 7)>>,
     <<QOf(1), Dec(-1, 20)>>, <<QInf, QNeg(QInf)>>, <<QNaN, QOf(0)>>}

\* The arithmetic on the hues is evaluated once, for the h_1 of every
\* chromaticity and for every value the two loop bodies lead to from them.
h_1_of == [ab \in CMCChromaticities |-> delta_E_CMC_h_1(ab[1], ab[2])]

IsNegative(h) == QLess(h, QOf(0))

\* h >= 360: False for nan
IsAbove(h) == ~QIsNaN(h) /\ ~QLess(h, QOf(360))

RECURSIVE HuesFrom(_)
HuesFrom(S) ==
    LET T == S \cup {AddFloat360(h) : h \in {x \in S : IsNegative(x)}}
               \cup {QSub(h, QOf(360)) : h \in {x \in S : IsAbove(x)}}
    IN  IF T = S THEN S ELSE HuesFrom(T)

Hues == HuesFrom({h_1_of[ab] : ab \in CMCChromaticities})

NegativeHues == {h \in Hues : IsNegative(h)}

AboveHues == {h \in Hues : IsAbove(h)}

Plus360 == [h \in NegativeHues |-> AddFloat360(h)]

Minus360 == [h \in AboveHues |-> QSub(h, QOf(360))]

\* h_1[h_1 < 0] += 360
AddWhereNegative(h_1) ==
    [i \in DOMAIN h_1 |-> IF h_1[i] \in NegativeHues THEN Plus360[h_1[i]] ELSE h_1[i]]

\* h_1[h_1 >= 360] -= 360
SubtractWhereAbove(h_1) ==
    [i \in DOMAIN h_1 |-> IF h_1[i] \in AboveHues THEN Minus360[h_1[i]] ELSE h_1[i]]

InitCMC ==
    /\ data = <<>>
    /\ Untouched
    /\ op = "input"
    /\ res = Ret(None)
    /\ \E n \in 1..MaxRows : \E ab \in [1..n -> CMCChromaticities] :
         \E function \in {"delta_E_CMC", "delta_E_CMC_vectorise"} :
           arg = [function |-> function,
                  Lab_1 |-> [i \in 1..n |-> <<QOf(50), ab[i][1], ab[i][2]>>],
                  Lab_2 |-> [i \in 1..n |-> <<QOf(50), QOf(0), QOf(0)>>]]

\* The call up to the first loop.
Call_delta_E_CMC ==
    /\ op = "input"
    /\ op' = "while np.any(h_1 < 0)"
    /\ res' = [h_1 |-> [i \in DOMAIN arg.Lab_1 |->
                          h_1_of[<<arg.Lab_1[i][2], arg.Lab_1[i][3]>>]]]
    /\ UNCHANGED <<data, arg, cmfsVars, munsellVars>>

WhileAnyNegative ==
    /\ op = "while np.any(h_1 < 0)"
    /\ IF \E i \in DOMAIN res.h_1 : res.h_1[i] \in NegativeHues
       THEN /\ res' = [h_1 |-> AddWhereNegative(res.h_1)]
            /\ op' = op
       ELSE /\ res' = res
            /\ op' = "while np.any(h_1 >= 360)"
    /\ UNCHANGED <<data, arg, cmfsVars, munsellVars>>

WhileAnyAbove ==
    /\ op = "while np.any(h_1 >= 360)"
    /\ IF \E i \in DOMAIN res.h_1 : res.h_1[i] \in AboveHues
       THEN /\ res' = [h_1 |-> SubtractWhereAbove(res.h_1)]
            /\ op' = op
       ELSE /\ res' = res
            /\ op' = "t = np.where(...)"
    /\ UNCHANGED <<data, arg, cmfsVars, munsellVars>>

\* The rest of the function, from t to d_E.
ReturnCMC ==
    /\ op = "t = np.where(...)"
    /\ op' = "return"
    /\ res' = Ret([function |-> arg.function, Lab_1 |-> arg.Lab_1, Lab_2 |-> arg.Lab_2,
                   l |-> 2, c |-> 1, h_1 |-> res.h_1])
    /\ UNCHANGED <<data, arg, cmfsVars, munsellVars>>

NextCMC == Call_delta_E_CMC \/ WhileAnyNegative \/ WhileAnyAbove \/ ReturnCMC

\* A call that has started goes on running.
SpecCMC == InitCMC /\ [][NextCMC]_vars /\ WF_vars(NextCMC)

\* h_1[i] is in [0, 360), and 0 when the chroma of colour i is below 0.000001
HueNormalised(i) ==
    LET a_1 == arg.Lab_1[i][2]
        b_1 == arg.Lab_1[i][3]
        h == res.h_1[i]
    IN  /\ ~QIsNaN(h)
        /\ ~QLess(h, QOf(0))
        /\ QLess(h, QOf(360))
        /\ QLess(QAdd(QMul(a_1, a_1), QMul(b_1, b_1)), Dec(1, 12)) => QSame(h, QOf(0))

IsNaNColour(i) == \E k \in 1..3 : QIsNaN(arg.Lab_1[i][k])

MaxRoot == 12

\* np.sqrt of an integer that is a square
ExactRoot(n) ==
    IF \E r \in 0..MaxRoot : r * r = n
    THEN R(CHOOSE r \in 0..MaxRoot : r * r = n, 1)
    ELSE sqrt(n)

\* (np.sqrt(x) / d) ** 2
SquaredRootOver(x, d) == IF RLess(x, Zero) THEN NaN ELSE RDiv(x, RMul(d, d))

Given(argument, default) == IF argument = <<>> THEN default ELSE argument[1]

\* d_E of one pair of triplets, from the factors on.
delta_E_CIE1994_row(Lab_1, Lab_2, textiles) ==
    LET k_1 == IF textiles THEN R(48, 1000) ELSE R(45, 1000)
        k_2 == IF textiles THEN R(14, 1000) ELSE R(15, 1000)
        k_L == IF textiles THEN R(2, 1) ELSE One
        k_C == One
        k_H == One
        C_1 == ExactRoot(Lab_1[2] * Lab_1[2] + Lab_1[3] * Lab_1[3])
        C_2 == ExactRoot(Lab_2[2] * Lab_2[2] + Lab_2[3] * Lab_2[3])
        s_L == One
        s_C == RAdd(One, RMul(k_1, C_1))
        s_H == RAdd(One, RMul(k_2, C_1))
        delta_L == R(Lab_1[1] - Lab_2[1], 1)
        delta_C == RSub(C_1, C_2)
        delta_A == R(Lab_1[2] - Lab_2[2], 1)
        delta_B == R(Lab_1[3] - Lab_2[3], 1)
        delta_H2 == RSub(RAdd(RMul(delta_A, delta_A), RMul(delta_B, delta_B)),
                         RMul(delta_C, delta_C))
        L == RMul(RDiv(delta_L, RMul(k_L, s_L)), RDiv(delta_L, RMul(k_L, s_L)))
        C == RMul(RDiv(delta_C, RMul(k_C, s_C)), RDiv(delta_C, RMul(k_C, s_C)))
        H == SquaredRootOver(delta_H2, RMul(k_H, s_H))
    IN  sqrt(RAdd(RAdd(L, C), H))

\* delta_E_CIE1994(Lab_1, Lab_2, textiles=False), computed: a number for two
\* triplets, an array of the leading shape otherwise.
delta_E_CIE1994_d_E(Lab_1, Lab_2, textiles) ==
    LET d == [r \in 1..(Len(Lab_1.flat) \div 3) |->
                delta_E_CIE1994_row(Triplet(Lab_1, r), Triplet(Lab_2, r),
                                    Given(textiles, FALSE))]
    IN  IF Len(Lab_1.shape) = 1 THEN d[1]
        ELSE Arr(SubSeq(Lab_1.shape, 1, Len(Lab_1.shape) - 1), d)

\* delta_E_CIE1994_vectorise(Lab1, Lab2, textiles=True, **kwargs)
delta_E_CIE1994_vectorise(Lab1, Lab2, textiles) ==
    LET shape == as_shape(Lab1)
        rows1 == Rows(Lab1, 3)
        rows2 == Rows(Lab2, 3)
        d_E == [r \in 1..Len(rows1) |->
                  delta_E_CIE1994_row(rows1[r], rows2[r], Given(textiles, TRUE))]
    IN  as_numeric_nd(reshape_1d(d_E, auto_axis(shape)))

\* Sample L*a*b* triplets of integer chroma.
Labs1994 == {<<50, 0, 0>>, <<52, 3, 4>>, <<50, -4, 3>>}

InitCIE1994 ==
    /\ data = <<>>
    /\ Untouched
    /\ op = "input"
    /\ res = Ret(None)
    /\ \E sh \in Shapes :
         \E rows1 \in [1..(Product(sh) \div 3) -> Labs1994] :
           \E rows2 \in [1..(Product(sh) \div 3) -> Labs1994] :
             \E textiles \in {<<>>, <<TRUE>>, <<FALSE>>} :
               arg = [Lab_1 |-> Arr(sh, Flatten(rows1)),
                      Lab_2 |-> Arr(sh, Flatten(rows2)),
                      textiles |-> textiles]

Call_delta_E_CIE1994 ==
    /\ op = "input"
    /\ op' = "delta_E_CIE1994"
    /\ res' = Ret(delta_E_CIE1994_d_E(arg.Lab_1, arg.Lab_2, arg.textiles))
    /\ UNCHANGED <<data, arg, cmfsVars, munsellVars>>

Call_delta_E_CIE1994_vectorise ==
    /\ op = "input"
    /\ op' = "delta_E_CIE1994_vectorise"
    /\ res' = Ret(delta_E_CIE1994_vectorise(arg.Lab_1, arg.Lab_2, arg.textiles))
    /\ UNCHANGED <<data, arg, cmfsVars, munsellVars>>

NextCIE1994 == Call_delta_E_CIE1994 \/ Call_delta_E_CIE1994_vectorise

SpecCIE1994 == InitCIE1994 /\ [][NextCIE1994]_vars

\* C21: delta_E_CIE1994_vectorise returns the numbers delta_E_CIE1994
\* returns for the same arguments, textiles omitted included, and without
\* textiles both use k_L = 1, k_1 = 0.045, k_2 = 0.015.
C21_SameAsReference ==
    op \in {"delta_E_CIE1994", "delta_E_CIE1994_vectorise"} =>
        /\ Elements(res.val) = Elements(delta_E_CIE1994_d_E(arg.Lab_1, arg.Lab_2, arg.textiles))
        /\ arg.textiles = <<>> =>
             \A r \in 1..Len(Elements(res.val)) :
                Elements(res.val)[r] =
                    delta_E_CIE1994_row(Triplet(arg.Lab_1, r), Triplet(arg.Lab_2, r), FALSE)

\* With textiles given, the two functions return the same numbers.
CIE1994_SameWhenGiven ==
    (op = "delta_E_CIE1994_vectorise" /\ arg.textiles # <<>>) =>
        Elements(res.val) = Elements(delta_E_CIE1994_d_E(arg.Lab_1, arg.Lab_2, arg.textiles))


(***************************************************************************)
(* colour.difference.delta_e: delta_E_CIE2000 and                          *)
(* delta_E_CIE2000_vectorise, computed (SpecCIE2000).  A float is kept     *)
(* exactly, as a quotient, where the arithmetic on quotients gives it,     *)
(* and as the expression that yields it otherwise; a product with an exact *)
(* 0 is 0.                                                                 *)
(***************************************************************************)
Exact(q) == [q |-> q]

Sym(fn, args) == [fn |-> fn, args |-> args]

IsExact(t) == "q" \in DOMAIN t

IsZeroT(t) == IsExact(t) /\ QSame(t.q, QOf(0))

Lit(m, e) == Exact(Dec(m, e))

Whole(n) == Exact(QOf(n))

TNeg(x) == IF IsExact(x) THEN Exact(QNeg(x.q)) ELSE Sym("-", <<x>>)

TAdd(x, y) ==
    IF IsExact(x) /\ IsExact(y) THEN Exact(QAdd(x.q, y.q))
    ELSE IF IsZeroT(x) THEN y
    ELSE IF IsZeroT(y) THEN x
    ELSE Sym("+", <<x, y>>)

TSub(x, y) == TAdd(x, TNeg(y))

TMul(x, y) ==
    IF IsExact(x) /\ IsExact(y) THEN Exact(QMul(x.q, y.q))
    ELSE IF IsZeroT(x) \/ IsZeroT(y) THEN Whole(0)
    ELSE Sym("*", <<x, y>>)

TDiv(x, y) ==
    IF IsExact(x) /\ IsExact(y) THEN Exact(QDiv(x.q, y.q))
    ELSE IF IsZeroT(x) THEN Whole(0)
    ELSE Sym("/", <<x, y>>)

\* np.sqrt: the root of the square of an integer up to MaxRoot, the
\* expression otherwise
TSqrt(x) ==
    IF IsExact(x) /\ \E r \in 0..MaxRoot : QSame(x.q, QOf(r * r))
    THEN Whole(CHOOSE r \in 0..MaxRoot : QSame(x.q, QOf(r * r)))
    ELSE Sym("sqrt", <<x>>)

RECURSIVE QPowOf(_, _)
QPowOf(q, k) ==
    IF k = 0 THEN QOf(1) ELSE CHOOSE p \in {QMul(q, r) : r \in {QPowOf(q, k - 1)}} : TRUE

TPower7(x) == IF IsExact(x) THEN Exact(QPowOf(x.q, 7)) ELSE Sym("** 7", <<x>>)

\* np.cos(np.deg2rad(x)), np.sin(np.deg2rad(x)), np.exp(x)
TCos(x) == IF IsZeroT(x) THEN Whole(1) ELSE Sym("cos(deg2rad)", <<x>>)

TSin(x) == IF IsZeroT(x) THEN Whole(0) ELSE Sym("sin(deg2rad)", <<x>>)

TExp(x) == IF IsZeroT(x) THEN Whole(1) ELSE Sym("exp", <<x>>)

TFabs(x) == IF IsExact(x) THEN Exact(QAbs(x.q)) ELSE Sym("fabs", <<x>>)

\* np.rad2deg(np.arctan2(b, a))
TArctan2(b, a) ==
    IF IsExact(a) /\ IsExact(b) /\ "n" \in DOMAIN rad2deg_arctan2(b.q, a.q)
    THEN Exact(rad2deg_arctan2(b.q, a.q))
    ELSE Sym("rad2deg(arctan2)", <<b, a>>)

\* x <= y and x < y: [b |-> the truth value] where both are exact
TLessEq(x, y) ==
    IF IsExact(x) /\ IsExact(y)
    THEN [b |-> ~QIsNaN(x.q) /\ ~QIsNaN(y.q) /\ ~QLess(y.q, x.q)]
    ELSE Sym("<=", <<x, y>>)

TLess(x, y) ==
    IF IsExact(x) /\ IsExact(y) THEN [b |-> QLess(x.q, y.q)] ELSE Sym("<", <<x, y>>)

\* np.where(condition, x, y) of one element
TWhere(condition, x, y) ==
    IF "b" \in DOMAIN condition THEN (IF condition.b THEN x ELSE y)
    ELSE Sym("where", <<condition, x, y>>)

\* x and y are the same float or the same expression
RECURSIVE TSame(_, _)
TSame(x, y) ==
    IF IsExact(x) /\ IsExact(y) THEN QSame(x.q, y.q)
    ELSE IF "b" \in DOMAIN x \/ "b" \in DOMAIN y THEN x = y
    ELSE /\ ~IsExact(x)
         /\ ~IsExact(y)
         /\ x.fn = y.fn
         /\ Len(x.args) = Len(y.args)
         /\ \A i \in 1..Len(x.args) : TSame(x.args[i], y.args[i])

\* The statements of delta_E_CIE2000 from l_bar_prime to d_E in groups, each
\* of which uses the locals v of the groups before it and yields its own
\* (intermediate results of the longer expressions are locals too).
delta_E_CIE2000_statements(v, i) ==
    CASE i = 1 ->
            [
                 l_bar_prime |-> TMul(Lit(5, 1), TAdd(v.L_1, v.L_2)),
                 s_1 |-> TAdd(TMul(v.a_1, v.a_1), TMul(v.b_1, v.b_1)),
                 s_2 |-> TAdd(TMul(v.a_2, v.a_2), TMul(v.b_2, v.b_2)),
                 p25_7 |-> TPower7(Whole(25)),
                 delta_L_prime |-> TSub(v.L_2, v.L_1)]
      [] i = 2 ->
            [
                 c_1 |-> TSqrt(v.s_1),
                 c_2 |-> TSqrt(v.s_2),
                 l_50 |-> TSub(v.l_bar_prime, Whole(50))]
      [] i = 3 ->
            [
                 c_bar |-> TMul(Lit(5, 1), TAdd(v.c_1, v.c_2)),
                 l_50_2 |-> TMul(v.l_50, v.l_50)]
      [] i = 4 ->
            [
                 c_bar7 |-> TPower7(v.c_bar),
                 root_L |-> TSqrt(TAdd(Whole(20), v.l_50_2))]
      [] i = 5 ->
            [
                 ratio |-> TDiv(v.c_bar7, TAdd(v.c_bar7, v.p25_7)),
                 s_L |-> TAdd(Whole(1), TDiv(TMul(Lit(15, 3), v.l_50_2), v.root_L))]
      [] i = 6 ->
            [
                 root_ratio |-> TSqrt(v.ratio)]
      [] i = 7 ->
            [
                 g |-> TMul(Lit(5, 1), TSub(Whole(1), v.root_ratio))]
      [] i = 8 ->
            [
                 a_1_prime |-> TMul(v.a_1, TAdd(Whole(1), v.g)),
                 a_2_prime |-> TMul(v.a_2, TAdd(Whole(1), v.g))]
      [] i = 9 ->
            [
                 sp_1 |-> TAdd(TMul(v.a_1_prime, v.a_1_prime), TMul(v.b_1, v.b_1)),
                 sp_2 |-> TAdd(TMul(v.a_2_prime, v.a_2_prime), TMul(v.b_2, v.b_2)),
                 h_1 |-> TArctan2(v.b_1, v.a_1_prime),
                 h_2 |-> TArctan2(v.b_2, v.a_2_prime)]
      [] i = 10 ->
            [
                 c_1_prime |-> TSqrt(v.sp_1),
                 c_2_prime |-> TSqrt(v.sp_2),
                 h_1_prime |-> TWhere(TLess(v.h_1, Whole(0)), TAdd(v.h_1, Whole(360)), v.h_1),
                 h_2_prime |-> TWhere(TLess(v.h_2, Whole(0)), TAdd(v.h_2, Whole(360)), v.h_2)]
      [] i = 11 ->
            [
                 c_bar_prime |-> TMul(Lit(5, 1), TAdd(v.c_1_prime, v.c_2_prime)),
                 h_sum |-> TAdd(v.h_1_prime, v.h_2_prime),
                 h_gap |-> TFabs(TSub(v.h_1_prime, v.h_2_prime)),
                 h |-> TSub(v.h_2_prime, v.h_1_prime),
                 delta_C_prime |-> TSub(v.c_2_prime, v.c_1_prime),
                 c_12_prime |-> TMul(v.c_1_prime, v.c_2_prime)]
      [] i = 12 ->
            [
                 h_bar_prime |-> TWhere(TLessEq(v.h_gap, Whole(180)), TMul(Lit(5, 1), v.h_sum), TMul(Lit(5, 1), TAdd(v.h_sum, Whole(360)))),
                 h_turned |-> TWhere(TLessEq(v.h_2_prime, v.h_1_prime), TSub(v.h, Whole(360)), TAdd(v.h, Whole(360))),
                 s_C |-> TAdd(Whole(1), TMul(Lit(45, 3), v.c_bar_prime)),
                 c_bar_prime7 |-> TPower7(v.c_bar_prime),
                 root_c_12 |-> TSqrt(v.c_12_prime)]
      [] i = 13 ->
            [
                 delta_h_prime |-> TWhere(TLessEq(TFabs(v.h), Whole(180)), v.h, v.h_turned),
                 cos_1 |-> TCos(TSub(v.h_bar_prime, Whole(30))),
                 cos_2 |-> TCos(TMul(Whole(2), v.h_bar_prime)),
                 cos_3 |-> TCos(TAdd(TMul(Whole(3), v.h_bar_prime), Whole(6))),
                 cos_4 |-> TCos(TSub(TMul(Whole(4), v.h_bar_prime), Whole(63))),
                 h_275 |-> TDiv(TSub(v.h_bar_prime, Whole(275)), Whole(25)),
                 ratio_prime |-> TDiv(v.c_bar_prime7, TAdd(v.c_bar_prime7, v.p25_7))]
      [] i = 14 ->
            [
                 t_12 |-> TAdd(TSub(Whole(1), TMul(Lit(17, 2), v.cos_1)), TMul(Lit(24, 2), v.cos_2)),
                 sin_h |-> TSin(TMul(Lit(5, 1), v.delta_h_prime)),
                 exp_h |-> TExp(TMul(TNeg(v.h_275), v.h_275)),
                 r_C |-> TSqrt(v.ratio_prime)]
      [] i = 15 ->
            [
                 t_123 |-> TAdd(v.t_12, TMul(Lit(32, 2), v.cos_3)),
                 delta_H_prime |-> TMul(TMul(Whole(2), v.root_c_12), v.sin_h),
                 delta_theta |-> TMul(Whole(30), v.exp_h)]
      [] i = 16 ->
            [
                 t |-> TSub(v.t_123, TMul(Lit(20, 2), v.cos_4)),
                 sin_theta |-> TSin(TMul(Whole(2), v.delta_theta))]
      [] i = 17 ->
            [
                 s_H |-> TAdd(Whole(1), TMul(TMul(Lit(15, 3), v.c_bar_prime), v.t)),
                 r_T |-> TMul(TMul(Whole(-2), v.r_C), v.sin_theta)]
      [] i = 18 ->
            [
                 l |-> TDiv(v.delta_L_prime, TMul(v.k_L, v.s_L)),
                 c |-> TDiv(v.delta_C_prime, TMul(v.k_C, v.s_C)),
                 hh |-> TDiv(v.delta_H_prime, TMul(v.k_H, v.s_H))]
      [] i = 19 ->
            [
                 l_2 |-> TMul(v.l, v.l),
                 c_2_ |-> TMul(v.c, v.c),
                 hh_2 |-> TMul(v.hh, v.hh),
                 c_hh |-> TMul(v.c, v.hh)]
      [] i = 20 ->
            [
                 sum |-> TAdd(TAdd(TAdd(v.l_2, v.c_2_), v.hh_2), TMul(v.c_hh, v.r_T))]
      [] i = 21 ->
            [
                 d_E |-> TSqrt(v.sum)]

\* The one element of a set of one element
Only(S) == CHOOSE v \in S : TRUE

\* The locals once d_E is assigned, from the locals v before statement
\* group i
RECURSIVE delta_E_CIE2000_locals(_, _)
delta_E_CIE2000_locals(v, i) ==
    IF "d_E" \in DOMAIN v THEN v
    ELSE Only({delta_E_CIE2000_locals(w @@ v, i + 1) :
               w \in {delta_E_CIE2000_statements(v, i)}})

\* d_E of one pair of triplets for the weights k_L, k_C, k_H
delta_E_CIE2000_row(Lab_1, Lab_2, k_L, k_C, k_H) ==
    delta_E_CIE2000_locals([L_1 |-> Whole(Lab_1[1]),
                            a_1 |-> Whole(Lab_1[2]),
                            b_1 |-> Whole(Lab_1[3]),
                            L_2 |-> Whole(Lab_2[1]),
                            a_2 |-> Whole(Lab_2[2]),
                            b_2 |-> Whole(Lab_2[3]),
                            k_L |-> k_L,
                            k_C |-> k_C,
                            k_H |-> k_H], 1).d_E

\* Sample L*a*b* triplets: greys whose mean lightness is 50, 46 or 54, and
\* one colour.
Labs2000 == {<<50, 0, 0>>, <<46, 0, 0>>, <<54, 0, 0>>, <<58, 0, 0>>, <<50, 3, 4>>}

\* d_E of every pair of sample triplets for k_L = 1 and k_L = 2, evaluated
\* once.
d_E_of ==
    [x \in Labs2000 \X Labs2000 \X {1, 2} |->
        delta_E_CIE2000_row(x[1], x[2], Whole(x[3]), Whole(1), Whole(1))]

\* delta_E_CIE2000(Lab_1, Lab_2, textiles=False), computed
delta_E_CIE2000_d_E(Lab_1, Lab_2, textiles) ==
    LET k_L == IF Given(textiles, FALSE) THEN 2 ELSE 1
        d == [r \in 1..(Len(Lab_1.flat) \div 3) |->
                d_E_of[<<Triplet(Lab_1, r), Triplet(Lab_2, r), k_L>>]]
    IN  IF Len(Lab_1.shape) = 1 THEN d[1]
        ELSE Arr(SubSeq(Lab_1.shape, 1, Len(Lab_1.shape) - 1), d)

\* delta_E_CIE2000_vectorise(Lab1, Lab2, **kwargs): kL = 1 whatever the
\* keywords are.
delta_E_CIE2000_vectorise(Lab1, Lab2, kwargs) ==
    LET kL == 1
        shape == as_shape(Lab1)
        rows1 == Rows(Lab1, 3)
        rows2 == Rows(Lab2, 3)
        d_E == [r \in 1..Len(rows1) |-> d_E_of[<<rows1[r], rows2[r], kL>>]]
    IN  as_numeric_nd(reshape_1d(d_E, auto_axis(shape)))

InitCIE2000 ==
    /\ data = <<>>
    /\ Untouched
    /\ op = "input"
    /\ res = Ret(None)
    /\ \E sh \in {s \in Shapes : Product(s) = 3} :
         \E Lab_1 \in Labs2000 : \E Lab_2 \in Labs2000 :
           \E textiles \in {<<>>, <<TRUE>>, <<FALSE>>} :
             arg = [Lab_1 |-> Arr(sh, Lab_1), Lab_2 |-> Arr(sh, Lab_2),
                    textiles |-> textiles]

Call_delta_E_CIE2000 ==
    /\ op = "input"
    /\ op' = "delta_E_CIE2000"
    /\ res' = Ret(delta_E_CIE2000_d_E(arg.Lab_1, arg.Lab_2, arg.textiles))
    /\ UNCHANGED <<data, arg, cmfsVars, munsellVars>>

Call_delta_E_CIE2000_vectorise ==
    /\ op = "input"
    /\ op' = "delta_E_CIE2000_vectorise"
    /\ res' = Ret(delta_E_CIE2000_vectorise(arg.Lab_1, arg.Lab_2,
                    IF arg.textiles = <<>> THEN <<>> ELSE [textiles |-> arg.textiles[1]]))
    /\ UNCHANGED <<data, arg, cmfsVars, munsellVars>>

NextCIE2000 == Call_delta_E_CIE2000 \/ Call_delta_E_CIE2000_vectorise

SpecCIE2000 == InitCIE2000 /\ [][NextCIE2000]_vars

\* The numbers of a result of expressions, in row order.
Terms(v) == IF "flat" \in DOMAIN v THEN v.flat ELSE <<v>>

\* C22: with textiles=True the weight k_L of delta_E_CIE2000 is 2, otherwise
\* 1 (k_C = k_H = 1), and delta_E_CIE2000_vectorise given the same textiles
\* returns the numbers delta_E_CIE2000 returns.
C22_TextilesHonoured ==
    op \in {"delta_E_CIE2000", "delta_E_CIE2000_vectorise"} =>
        LET k_L == IF arg.textiles = <<TRUE>> THEN Whole(2) ELSE Whole(1)
            d == Terms(res.val)
        IN  /\ Len(d) = Len(arg.Lab_1.flat) \div 3
            /\ \A r \in 1..Len(d) :
                 TSame(d[r], delta_E_CIE2000_row(Triplet(arg.Lab_1, r), Triplet(arg.Lab_2, r),
                                                 k_L, Whole(1), Whole(1)))

\* Without textiles=True the two functions return the same numbers.
CIE2000_SameWithoutTextiles ==
    (op = "delta_E_CIE2000_vectorise" /\ arg.textiles # <<TRUE>>) =>
        \A r \in 1..Len(Terms(res.val)) :
            TSame(Terms(res.val)[r],
                  Terms(delta_E_CIE2000_d_E(arg.Lab_1, arg.Lab_2, arg.textiles))[r])

\* The reference alone honours textiles: for two greys of mean lightness 50
\* the difference is |L_2 - L_1| / k_L.
CIE2000_ReferenceGreys ==
    (/\ op = "delta_E_CIE2000"
     /\ arg.Lab_1.flat = <<46, 0, 0>>
     /\ arg.Lab_2.flat = <<54, 0, 0>>) =>
        TSame(Terms(res.val)[1], IF arg.textiles = <<TRUE>> THEN Whole(4) ELSE Whole(8))

====
